---- MODULE Spec2Model ----
(***************************************************************************)
(* A model of gohome's recipe manager (RecipeManager and the ingredient    *)
(* binder), of the event broker it registers triggers with, and of         *)
(* SupressFeatureReporting, the feature-reporting filter that cmd builders *)
(* install on the event bus.                                               *)
(***************************************************************************)
EXTENDS Integers, Sequences, FiniteSets, TLC

(***************************************************************************)
(* Go integers.  An int64 does not fit a TLC integer, so a number is kept  *)
(* as limbs in base 10^6 (time.Millisecond, in nanoseconds): <<h, l>> is   *)
(* h*10^6 + l and <<a, b, c>> is a*10^12 + b*10^6 + c.  All limbs of a     *)
(* number have the same sign, so that dropping the last limb is Go's       *)
(* division by 10^6 (it truncates toward zero).                            *)
(***************************************************************************)
Millisecond == 1000000

TwoTo64 == <<18446744, 73709, 551616>>
Int64Max == <<9223372, 36854, 775807>>
Int64Min == <<-9223372, -36854, -775808>>

\* x < y for numbers of three limbs
Less(x, y) ==
    \/ x[1] < y[1]
    \/ x[1] = y[1] /\ x[2] < y[2]
    \/ x[1] = y[1] /\ x[2] = y[2] /\ x[3] < y[3]

\* limbs of any sign and size -> limbs of one sign, the lower two below 10^6
Norm(x) ==
    LET c2 == x[3] % Millisecond
        b1 == x[2] + (x[3] \div Millisecond)
        b2 == b1 % Millisecond
        a2 == x[1] + (b1 \div Millisecond)
        \* a2*10^12 + b2*10^6 + c2 with 0 <= b2, c2 < 10^6
        c3 == IF a2 < 0 /\ c2 > 0 THEN c2 - Millisecond ELSE c2
        b3 == IF a2 < 0 /\ c2 > 0 THEN b2 + 1 ELSE b2
        b4 == IF a2 < 0 /\ b3 > 0 THEN b3 - Millisecond ELSE b3
        a4 == IF a2 < 0 /\ b3 > 0 THEN a2 + 1 ELSE a2
    IN  <<a4, b4, c3>>

\* the int64 that a product or sum x wraps to (two's complement, 64 bits)
RECURSIVE Wrap64(_)
Wrap64(x) ==
    IF Less(Int64Max, x)
    THEN Wrap64(Norm(<<x[1] - TwoTo64[1], x[2] - TwoTo64[2], x[3] - TwoTo64[3]>>))
    ELSE IF Less(x, Int64Min)
    THEN Wrap64(Norm(<<x[1] + TwoTo64[1], x[2] + TwoTo64[2], x[3] + TwoTo64[3]>>))
    ELSE x

\* time.Duration(ms) * time.Millisecond, ms an int64 <<h, l>>
MulMillisecond(ms) == Wrap64(<<ms[1], ms[2], 0>>)

\* int64(d / time.Millisecond), d a time.Duration <<a, b, c>>
DivMillisecond(d) == <<d[1], d[2]>>

\* F(v), with v evaluated once
With(v, F(_)) == CHOOSE y \in {F(x) : x \in {v}} : TRUE

(***************************************************************************)
(* Values.  A decoded JSON value (interface{}) and a Go field value are    *)
(* records of one shape, tagged by k.  A JSON number is a float64          *)
(* <<h, l, q>>: h*10^6 + l + q/4.  The float32 of a struct field keeps     *)
(* one binary digit less than a float64: halves, where the float64 of the  *)
(* wire has quarters.                                                      *)
(***************************************************************************)
Val(k, s, b, n) == [k |-> k, s |-> s, b |-> b, n |-> n]

WStr(s) == Val("string", s, FALSE, <<>>)
WBool(b) == Val("bool", "", b, <<>>)
WNum(n) == Val("float64", "", FALSE, n)
WNull == Val("nil", "", FALSE, <<>>)
WObj == Val("object", "", FALSE, <<>>)

GString(s) == Val("string", s, FALSE, <<>>)
GBool(b) == Val("bool", "", b, <<>>)
GInt(n) == Val("int", "", FALSE, n)
GFloat32(n) == Val("float32", "", FALSE, n)
GDuration(n) == Val("duration", "", FALSE, n)
GTime == Val("time", "", FALSE, <<>>)

\* int64(value), value a float64 within the int64 range: the fraction is dropped
ToInt64(w) == <<w[1], w[2]>>

\* float32(value), value a float64 >= 0: round to the nearest half, ties to even
ToFloat32(w) ==
    LET halves == 2 * w[2] + (w[3] \div 2)
        up == (w[3] % 2 = 1) /\ (halves % 2 = 1)
        r == IF up THEN halves + 1 ELSE halves
    IN  <<w[1], r \div 2, 2 * (r % 2)>>

\* json.Marshal of a Go value followed by json.Unmarshal into interface{}
JSONValue(g) ==
    CASE g.k = "int" -> WNum(<<g.n[1], g.n[2], 0>>)
      [] g.k = "float32" -> WNum(g.n)
      [] g.k = "time" -> WStr("0001-01-01T00:00:00Z")
      [] OTHER -> g

(***************************************************************************)
(* The cook book: the trigger and action variants, their ingredients and   *)
(* their struct fields.                                                    *)
(***************************************************************************)
Ingredient(id, type, required) == [ID |-> id, Type |-> type, Required |-> required]

ZoneSetLevelAction == "gohome.ZoneSetLevelAction"
SceneSetAction == "gohome.SceneSetAction"
ButtonTrigger == "gohome.ButtonTrigger"
TimeTrigger == "gohome.TimeTrigger"

\* loadCookBooks: the variants of the one cook book; of its four actions the
\* two Toggle actions are left out
CookBookTriggers == {ButtonTrigger, TimeTrigger}
CookBookActions == {ZoneSetLevelAction, SceneSetAction}

\* buildTriggerFactory, buildActionFactory: the keys are the variants' Type()
triggerFactory == CookBookTriggers
actionFactory == CookBookActions

ZoneSetLevelActionIngredients ==
    << Ingredient("Level", "float", TRUE), Ingredient("ZoneID", "string", TRUE) >>

\* The other variants' sources are not at hand.  Their ingredient lists here
\* are chosen so that the four variants together have an ingredient of every
\* type setIngredients handles, required ones and optional ones.

SceneSetActionIngredients ==
    << Ingredient("SceneID", "string", TRUE) >>

ButtonTriggerIngredients ==
    << Ingredient("ButtonID", "string", TRUE),
       Ingredient("MaxDuration", "duration", FALSE) >>

TimeTriggerIngredients ==
    << Ingredient("Time", "datetime", TRUE),
       Ingredient("Forever", "boolean", FALSE),
       Ingredient("Iterations", "integer", FALSE) >>

\* i.Ingredients() of the variant with Type() = t
Ingredients(t) ==
    CASE t = ZoneSetLevelAction -> ZoneSetLevelActionIngredients
      [] t = SceneSetAction -> SceneSetActionIngredients
      [] t = ButtonTrigger -> ButtonTriggerIngredients
      [] t = TimeTrigger -> TimeTriggerIngredients

IngredientIDs(t) == {Ingredients(t)[i].ID : i \in 1..Len(Ingredients(t))}

\* New(): a zero-valued instance of the variant, a value for each struct field
ZoneSetLevelActionNew == [ZoneID |-> GString(""), Level |-> GFloat32(<<0, 0, 0>>)]

SceneSetActionNew == [SceneID |-> GString("")]

ButtonTriggerNew == [ButtonID |-> GString(""), MaxDuration |-> GDuration(<<0, 0, 0>>)]

TimeTriggerNew == [Time |-> GTime, Forever |-> GBool(FALSE), Iterations |-> GInt(<<0, 0>>)]

New(t) ==
    CASE t = ZoneSetLevelAction -> ZoneSetLevelActionNew
      [] t = SceneSetAction -> SceneSetActionNew
      [] t = ButtonTrigger -> ButtonTriggerNew
      [] t = TimeTrigger -> TimeTriggerNew

(***************************************************************************)
(* Errors: what the message of an error names.                             *)
(***************************************************************************)
Err(kind, id, must) == [kind |-> kind, id |-> id, must |-> must]
NoErr == Err("nil", "", "")
ErrMissingIngredient == Err("Missing ingredient", "", "")
\* an error that does not name the ingredient
ErrInvalidTypeUnnamed(id, must) == Err("Invalid type", "", must)
ErrInvalidType(id, must) == Err("Invalid type", id, must)
ErrUnknownType(type) == Err("Unknown ingredient type", "", type)

(***************************************************************************)
(* setIngredients: copies the values of the mapping onto the fields of s,  *)
(* ingredient by ingredient; it returns at the first error, leaving s with *)
(* the fields it had set before.                                           *)
(***************************************************************************)
\* field.SetFloat(value): a float32 field narrows the value
SetFloat(field, w) == IF field.k = "float32" THEN GFloat32(ToFloat32(w)) ELSE Val("float64", "", FALSE, w)

\* the switch on ingredient.Type for a value that is present
setIngredient(ing, v, s) ==
    CASE ing.Type = "string" ->
           IF v.k # "string" THEN [err |-> ErrInvalidType(ing.ID, "a string"), s |-> s]
           ELSE [err |-> NoErr, s |-> [s EXCEPT ![ing.ID] = GString(v.s)]]
      [] ing.Type = "boolean" ->
           IF v.k # "bool" THEN [err |-> ErrInvalidType(ing.ID, "a boolean"), s |-> s]
           ELSE [err |-> NoErr, s |-> [s EXCEPT ![ing.ID] = GBool(v.b)]]
      [] ing.Type = "integer" ->
           IF v.k # "float64" THEN [err |-> ErrInvalidType(ing.ID, "an integer"), s |-> s]
           ELSE [err |-> NoErr, s |-> [s EXCEPT ![ing.ID] = GInt(ToInt64(v.n))]]
      [] ing.Type = "float" ->
           IF v.k # "float64" THEN [err |-> ErrInvalidType(ing.ID, "a float"), s |-> s]
           ELSE [err |-> NoErr, s |-> [s EXCEPT ![ing.ID] = SetFloat(s[ing.ID], v.n)]]
      [] ing.Type = "duration" ->
           IF v.k # "float64" THEN [err |-> ErrInvalidType(ing.ID, "an integer"), s |-> s]
           ELSE [err |-> NoErr,
                 s |-> [s EXCEPT ![ing.ID] = GDuration(MulMillisecond(ToInt64(v.n)))]]
      [] ing.Type = "datetime" -> [err |-> NoErr, s |-> s]
      [] OTHER -> [err |-> ErrUnknownType(ing.Type), s |-> s]

RECURSIVE setIngredientsFrom(_, _, _, _)
setIngredientsFrom(ings, ingredientValues, s, i) ==
    IF i > Len(ings) THEN [err |-> NoErr, s |-> s]
    ELSE LET ingredient == ings[i]
             ok == ingredient.ID \in DOMAIN ingredientValues
         IN  IF ~ok /\ ingredient.Required
             THEN [err |-> ErrMissingIngredient, s |-> s]
             ELSE IF ~ok
             THEN setIngredientsFrom(ings, ingredientValues, s, i + 1)
             ELSE With(setIngredient(ingredient, ingredientValues[ingredient.ID], s),
                       LAMBDA r : IF r.err # NoErr THEN r
                                  ELSE setIngredientsFrom(ings, ingredientValues, r.s, i + 1))

\* a binder that skips every absent ingredient, required or not
RECURSIVE setIngredientsSkippingFrom(_, _, _, _)
setIngredientsSkippingFrom(ings, ingredientValues, s, i) ==
    IF i > Len(ings) THEN [err |-> NoErr, s |-> s]
    ELSE IF ings[i].ID \notin DOMAIN ingredientValues
    THEN setIngredientsSkippingFrom(ings, ingredientValues, s, i + 1)
    ELSE With(setIngredient(ings[i], ingredientValues[ings[i].ID], s),
              LAMBDA r : IF r.err # NoErr THEN r
                         ELSE setIngredientsSkippingFrom(ings, ingredientValues, r.s, i + 1))

setIngredientsSkipping(ings, ingredientValues, s) ==
    setIngredientsSkippingFrom(ings, ingredientValues, s, 1)

setIngredients(ings, ingredientValues, s) == setIngredientsFrom(ings, ingredientValues, s, 1)

\* getIngredientValueMap, then the JSON encoding of the map
getIngredientValueMap(ings, v) ==
    [id \in {ings[i].ID : i \in 1..Len(ings)} |->
        LET ingredient == CHOOSE g \in {ings[i] : i \in 1..Len(ings)} : g.ID = id
        IN  IF ingredient.Type = "duration"
            THEN JSONValue(GInt(DivMillisecond(v[id].n)))
            ELSE JSONValue(v[id])]

(***************************************************************************)
(* Recipes, the persisted recipe files and recipe submissions.             *)
(***************************************************************************)
Missing == Val("missing", "", FALSE, <<>>)

\* a Recipe: Identifiable, Trigger (with its enabled flag) and Action
MkRecipe(id, name, desc, enabled, ttype, tfields, atype, afields) ==
    [Identifiable |-> [ID |-> id, Name |-> name, Description |-> desc],
     Trigger |-> [type |-> ttype, enabled |-> enabled, fields |-> tfields],
     Action |-> [type |-> atype, fields |-> afields]]

\* NewRecipe: the recipe gets its ID here; the trigger gets the enabled flag
NewRecipe(id, name, desc, enabled, ttype, trigger, atype, action) ==
    MkRecipe(id, name, desc, enabled, ttype, trigger, atype, action)

\* recipeJSON, the content of a recipe file; json is FALSE for a file that
\* json.Unmarshal rejects
MkFile(json, ident, enabled, ttype, tfields, atype, afields) ==
    [json |-> json, Identifiable |-> ident, enabled |-> enabled,
     Trigger |-> [type |-> ttype, fields |-> tfields],
     Action |-> [type |-> atype, fields |-> afields]]

\* SaveRecipe, lines 200-208: the recipeJSON of r and its JSON encoding
recipeJSONOf(r) ==
    MkFile(TRUE, r.Identifiable, r.Trigger.enabled,
           r.Trigger.type, getIngredientValueMap(Ingredients(r.Trigger.type), r.Trigger.fields),
           r.Action.type, getIngredientValueMap(Ingredients(r.Action.type), r.Action.fields))

\* recipePath: the file's name is the recipe's ID (+ ".json")
recipePath(r) == r.Identifiable.ID

\* makeTrigger, makeAction: a nil entry of the factory is called when the
\* type is not a key of it, and the process panics
makeTrigger(triggerID, triggerIngredients) ==
    IF triggerID \notin triggerFactory
    THEN [panic |-> TRUE, err |-> NoErr, s |-> <<>>]
    ELSE With(setIngredients(Ingredients(triggerID), triggerIngredients, New(triggerID)),
              LAMBDA r : [panic |-> FALSE, err |-> r.err,
                          s |-> IF r.err # NoErr THEN <<>> ELSE r.s])

makeAction(actionID, actionIngredients) ==
    IF actionID \notin actionFactory
    THEN [panic |-> TRUE, err |-> NoErr, s |-> <<>>]
    ELSE With(setIngredients(Ingredients(actionID), actionIngredients, New(actionID)),
              LAMBDA r : [panic |-> FALSE, err |-> r.err,
                          s |-> IF r.err # NoErr THEN <<>> ELSE r.s])

ErrJSON == Err("json", "", "")
NilRecipe == <<>>

\* loadRecipe, lines 298-315: the recipe of the file's trigger t and action a
loadedRecipe(file, t, a) ==
    [Identifiable |-> file.Identifiable,
     Trigger |-> [type |-> file.Trigger.type, enabled |-> file.enabled, fields |-> t.s],
     Action |-> [type |-> file.Action.type, fields |-> a.s]]

\* loadRecipe: the recipe of a file, an error, or a panic
loadRecipe(file) ==
    IF ~file.json THEN [panic |-> FALSE, err |-> ErrJSON, recipe |-> NilRecipe]
    ELSE With(makeTrigger(file.Trigger.type, file.Trigger.fields), LAMBDA t :
         IF t.panic THEN [panic |-> TRUE, err |-> NoErr, recipe |-> NilRecipe]
         ELSE IF t.err # NoErr THEN [panic |-> FALSE, err |-> t.err, recipe |-> NilRecipe]
         ELSE With(makeAction(file.Action.type, file.Action.fields), LAMBDA a :
              IF a.panic THEN [panic |-> TRUE, err |-> NoErr, recipe |-> NilRecipe]
              ELSE IF a.err # NoErr THEN [panic |-> FALSE, err |-> a.err, recipe |-> NilRecipe]
              ELSE [panic |-> FALSE, err |-> NoErr, recipe |-> loadedRecipe(file, t, a)]))

\* A submission (the data of UnmarshalNewRecipe): each key is Missing or a
\* value; the keys of the trigger and action objects are in triggerObj and
\* actionObj, read only when trigger and action are objects, and the maps
\* of ingredient values in their values component.
Obj(id, ingredients, values) == [id |-> id, ingredients |-> ingredients, values |-> values]

Submission(name, description, trigger, triggerObj, action, actionObj) ==
    [name |-> name, description |-> description, trigger |-> trigger,
     triggerObj |-> triggerObj, action |-> action, actionObj |-> actionObj]

Fail(msg) == [err |-> Err(msg, "", ""), built |-> FALSE, recipe |-> NilRecipe]

\* a check of the name key that accepts a name of any type
checkNameAnyType(data) ==
    IF data.name.k = "missing" THEN "Missing name key" ELSE ""

\* UnmarshalNewRecipe, lines 98-105: the message of the check of the name key, "" if it passes
checkName(data) ==
    IF data.name.k = "missing" THEN "Missing name key"
    ELSE IF data.name.k # "string" THEN "Invalid value for name, must be a string"
    ELSE ""

\* UnmarshalNewRecipe, for a recipe that would get the ID id: the recipe or
\* the error, and whether the trigger and action instances were constructed
UnmarshalNewRecipeOf(data, id) ==
    IF checkName(data) # "" THEN Fail(checkName(data))
    ELSE IF data.description.k = "missing" THEN Fail("Missing description key")
    ELSE IF data.description.k # "string"
    THEN Fail("Invalid value for description, must be a string")
    ELSE IF data.trigger.k = "missing" THEN Fail("Missing trigger key")
    ELSE IF data.trigger.k # "object" THEN Fail("Invalid value for trigger, must be an object")
    ELSE IF data.triggerObj.id.k = "missing" THEN Fail("Missing id key in trigger object")
    ELSE IF data.triggerObj.id.k # "string" THEN Fail("Invalid value, trigger.id must be a string")
    ELSE IF data.triggerObj.ingredients.k = "missing" THEN Fail("Missing trigger.ingredients key")
    ELSE IF data.triggerObj.ingredients.k # "object"
    THEN Fail("Invalid value for trigger.ingredients, must be an object")
    ELSE IF data.triggerObj.id.s \notin triggerFactory THEN Fail("Invalid trigger ID")
    ELSE IF data.action.k = "missing" THEN Fail("Missing action key")
    ELSE IF data.action.k # "object" THEN Fail("Invalid value for action, must be an object")
    ELSE IF data.actionObj.id.k = "missing" THEN Fail("Missing id key in action object")
    ELSE IF data.actionObj.id.k # "string" THEN Fail("Invalid value, action.id must be a string")
    ELSE IF data.actionObj.ingredients.k = "missing" THEN Fail("Missing action.ingredients key")
    ELSE IF data.actionObj.ingredients.k # "object"
    THEN Fail("Invalid value for action.ingredients, must be an object")
    ELSE IF data.actionObj.id.s \notin actionFactory THEN Fail("Invalid action ID")
    ELSE LET triggerID == data.triggerObj.id.s
             actionID == data.actionObj.id.s
         IN  With(setIngredients(Ingredients(triggerID), data.triggerObj.values, New(triggerID)),
             LAMBDA t :
             IF t.err # NoErr THEN [err |-> t.err, built |-> TRUE, recipe |-> NilRecipe]
             ELSE With(setIngredients(Ingredients(actionID), data.actionObj.values,
                                      New(actionID)),
                  LAMBDA a :
                  IF a.err # NoErr THEN [err |-> a.err, built |-> TRUE, recipe |-> NilRecipe]
                  ELSE [err |-> NoErr, built |-> TRUE,
                        recipe |-> NewRecipe(id, data.name.s, data.description.s, TRUE,
                                             triggerID, t.s, actionID, a.s)]))

(***************************************************************************)
(* Bounds of the model.                                                    *)
(***************************************************************************)
\* recipes ever constructed (UnmarshalNewRecipe, loadRecipe)
MaxRecipes == 2
\* length of the Recipes list
MaxList == 2
\* clock ticks
MaxTime == 3
\* concurrent callers of SupressFeatureReporting
MaxCallers == 2

(***************************************************************************)
(* State.                                                                  *)
(***************************************************************************)
VARIABLES
    heap,        \* the Recipe objects constructed so far; a *Recipe is an index
    Recipes,     \* rm.Recipes, a sequence of *Recipe
    files,       \* the storage directory: file name -> content
    consumers,   \* the broker's registered consumers (a trigger is named by its recipe)
    started,     \* the recipes whose trigger is started
    initialized, \* rm.Init has run
    crashed,     \* the process panicked
    lastOp,      \* the last manager operation, its arguments and what it returned
    loadLog,     \* the errors loadRecipes printed, one per skipped file
    fired,       \* the recipes whose Action was executed by the step just taken
    deleted,     \* the recipes deleted by a successful DeleteRecipe (and not registered since)
    filters,     \* the broker's enqueue filters, each with its featureID and expiry time
    now,         \* the clock
    pc,          \* where each caller of SupressFeatureReporting is
    args,        \* its arguments
    synth,       \* what became of the synthetic event of its call
    busLog,      \* the event the step just taken enqueued on the broker, and who received it
    installed,   \* per feature, the filter SupressFeatureReporting installed last
    probe,       \* input and results of a binding on its own
    repeated     \* the recipes whose last RegisterAndStart found them started (start),
                 \* whose last UnregisterAndStop found them stopped (stop)

mvars == <<heap, Recipes, files, consumers, started, initialized, crashed, lastOp, loadLog,
           fired, deleted, repeated>>
bvars == <<filters, now, pc, args, synth, installed>>
vars == <<heap, Recipes, files, consumers, started, initialized, crashed, lastOp, loadLog,
          fired, deleted, filters, now, pc, args, synth, busLog, installed, probe, repeated>>

Refs == 1..Len(heap)

\* the UI's state monitor, a consumer that is no trigger
Observer == 0

(***************************************************************************)
(* Events and the broker.                                                  *)
(***************************************************************************)
Evt(kind, id, attrs) == [kind |-> kind, id |-> id, attrs |-> attrs]
FeatureReportingEvt(featureID, attrs) == Evt("FeatureReportingEvt", featureID, attrs)
ButtonPressEvt(buttonID) == Evt("ButtonPressEvt", buttonID, "")
TimeEvt == Evt("TimeEvt", "", "")
NoEvt == Evt("", "", "")
NoArgs == [featureID |-> "", attrs |-> "", delay |-> 0]
NoLog == [evt |-> NoEvt, at |-> 0, by |-> 0, to |-> {}, dropped |-> FALSE]

\* a predicate that holds of every FeatureReportingEvt, whatever its feature
FilterPredicateAnyFeature(featureID, e) == e.kind = "FeatureReportingEvt"

\* the predicate of the filter SupressFeatureReporting installs for featureID
FilterPredicate(featureID, e) ==
    IF e.kind # "FeatureReportingEvt" THEN FALSE
    ELSE IF e.id = featureID THEN TRUE
    ELSE FALSE

\* Enqueue's check of the filters: some installed filter's predicate holds of e;
\* an expired filter is not installed any more (see Tick)
Filtered(e) == \E f \in filters : FilterPredicate(f.featureID, e)

\* the condition of a trigger on an event
Matches(trigger, e) ==
    CASE trigger.type = ButtonTrigger ->
           e.kind = "ButtonPressEvt" /\ e.id = trigger.fields["ButtonID"].s
      [] trigger.type = TimeTrigger -> e.kind = "TimeEvt"
      [] OTHER -> FALSE

\* the consumers an event that passed the filters is delivered to
Receivers(e) == IF Filtered(e) THEN {} ELSE consumers

\* the recipes whose trigger fires on e and whose Action is then executed
Firing(e) ==
    {r \in Receivers(e) \ {Observer} :
        /\ r \in started
        /\ heap[r].Trigger.enabled
        /\ Matches(heap[r].Trigger, e)}

\* Enqueue(e) by a producer or by a caller of SupressFeatureReporting
BrokerEnqueue(e, by) ==
    /\ busLog' = [evt |-> e, at |-> now, by |-> by, to |-> Receivers(e),
                  dropped |-> Filtered(e)]
    /\ fired' = Firing(e)

AddConsumer(c) == consumers' = consumers \cup {c}
RemoveConsumer(c) == consumers' = consumers \ {c}

(***************************************************************************)
(* The recipe manager.                                                     *)
(***************************************************************************)
EmptyMap == [x \in {} |-> x]
NoObj == Obj(Missing, Missing, EmptyMap)
NoData == Submission(Missing, Missing, Missing, NoObj, Missing, NoObj)

\* what an operation was called with and what it returned: r its recipe (0: none),
\* ret the recipe returned (0: nil), wrote whether it wrote a file
Op(op, r, err, ret, wrote, data) ==
    [op |-> op, r |-> r, err |-> err, ret |-> ret, wrote |-> wrote, data |-> data]

ErrNotExist == Err("no such file or directory", "", "")
ErrIO == Err("input/output error", "", "")

\* the IDs NewRecipe hands out: one that no recipe and no file carries
IDSeq == <<"r1", "r2", "r3", "r4", "r5">>
UsedIDs ==
    {heap[r].Identifiable.ID : r \in Refs} \cup DOMAIN files
        \cup {files[n].Identifiable.ID : n \in DOMAIN files}
NewID == IDSeq[CHOOSE i \in 1..Len(IDSeq) :
                  IDSeq[i] \notin UsedIDs /\ \A j \in 1..(i - 1) : IDSeq[j] \in UsedIDs]

\* ioutil.ReadDir: the names of the directory, sorted
DirNames == SelectSeq(IDSeq, LAMBDA n : n \in DOMAIN files)

\* loadRecipes: every file in turn; a file that fails to load is printed and skipped
RECURSIVE loadRecipesFrom(_, _, _)
loadRecipesFrom(names, i, acc) ==
    IF i > Len(names) \/ acc.panic THEN acc
    ELSE With(loadRecipe(files[names[i]]), LAMBDA l :
         With(IF l.panic THEN [acc EXCEPT !.panic = TRUE]
              ELSE IF l.err # NoErr
              THEN [acc EXCEPT !.log = Append(@, [file |-> names[i], err |-> l.err])]
              ELSE [acc EXCEPT !.recipes = Append(@, l.recipe)],
              LAMBDA acc2 : loadRecipesFrom(names, i + 1, acc2)))

loadRecipes == loadRecipesFrom(DirNames, 1, [panic |-> FALSE, log |-> <<>>, recipes |-> <<>>])

\* an rm.Init that registers and starts the enabled recipes only
RMInitEnabledOnly ==
    /\ ~initialized /\ ~crashed
    /\ \E res \in {loadRecipes} :
           IF res.panic
           THEN /\ crashed' = TRUE
                /\ UNCHANGED <<heap, Recipes, consumers, started, initialized, loadLog>>
           ELSE /\ heap' = res.recipes
                /\ Recipes' = [i \in 1..Len(res.recipes) |-> i]
                /\ consumers' = consumers \cup
                                    {i \in 1..Len(res.recipes) : res.recipes[i].Trigger.enabled}
                /\ started' = {i \in 1..Len(res.recipes) : res.recipes[i].Trigger.enabled}
                /\ initialized' = TRUE
                /\ loadLog' = res.log
                /\ crashed' = FALSE
    /\ lastOp' = Op("Init", 0, NoErr, 0, FALSE, NoData)
    /\ fired' = {} /\ busLog' = NoLog
    /\ UNCHANGED <<files, deleted, bvars, probe, repeated>>

\* rm.Init: load the recipes of the directory, register and start each
RMInit ==
    /\ ~initialized /\ ~crashed
    /\ \E res \in {loadRecipes} :
           IF res.panic
           THEN /\ crashed' = TRUE
                /\ UNCHANGED <<heap, Recipes, consumers, started, initialized, loadLog>>
           ELSE /\ heap' = res.recipes
                /\ Recipes' = [i \in 1..Len(res.recipes) |-> i]
                /\ consumers' = consumers \cup (1..Len(res.recipes))
                /\ started' = 1..Len(res.recipes)
                /\ initialized' = TRUE
                /\ loadLog' = res.log
                /\ crashed' = FALSE
    /\ lastOp' = Op("Init", 0, NoErr, 0, FALSE, NoData)
    /\ fired' = {} /\ busLog' = NoLog
    /\ UNCHANGED <<files, deleted, bvars, probe, repeated>>

Ready == initialized /\ ~crashed

NoRepeat == [start |-> {}, stop |-> {}]

\* a RegisterAndStart whose second call takes the subscription of the first away
RegisterAndStartToggling(r) ==
    /\ Ready
    /\ consumers' = IF r \in consumers THEN consumers \ {r} ELSE consumers \cup {r}
    /\ started' = started \cup {r}
    /\ deleted' = deleted \ {r}
    /\ repeated' = [start |-> IF r \in consumers /\ r \in started
                              THEN repeated.start \cup {r} ELSE repeated.start \ {r},
                    stop |-> repeated.stop \ {r}]
    /\ lastOp' = Op("RegisterAndStart", r, NoErr, 0, FALSE, NoData)
    /\ fired' = {} /\ busLog' = NoLog
    /\ UNCHANGED <<heap, Recipes, files, initialized, crashed, loadLog, bvars, probe>>

RegisterAndStart(r) ==
    /\ Ready
    /\ AddConsumer(r)
    /\ started' = started \cup {r}
    /\ deleted' = deleted \ {r}
    /\ repeated' = [start |-> IF r \in consumers /\ r \in started
                              THEN repeated.start \cup {r} ELSE repeated.start \ {r},
                    stop |-> repeated.stop \ {r}]
    /\ lastOp' = Op("RegisterAndStart", r, NoErr, 0, FALSE, NoData)
    /\ fired' = {} /\ busLog' = NoLog
    /\ UNCHANGED <<heap, Recipes, files, initialized, crashed, loadLog, bvars, probe>>

\* an UnregisterAndStop that leaves the subscription in place
UnregisterNothing(r) == UNCHANGED <<consumers, started>>

\* an UnregisterAndStop that stops the trigger and leaves it on the broker
UnregisterStopOnly(r) ==
    /\ started' = started \ {r}
    /\ UNCHANGED consumers

\* the effect of UnregisterAndStop on the broker and on the trigger
Unregister(r) ==
    /\ RemoveConsumer(r)
    /\ started' = started \ {r}

UnregisterAndStop(r) ==
    /\ Ready
    /\ Unregister(r)
    /\ repeated' = [start |-> repeated.start \ {r},
                    stop |-> IF r \notin consumers /\ r \notin started
                             THEN repeated.stop \cup {r} ELSE repeated.stop \ {r}]
    /\ lastOp' = Op("UnregisterAndStop", r, NoErr, 0, FALSE, NoData)
    /\ fired' = {} /\ busLog' = NoLog
    /\ UNCHANGED <<heap, Recipes, files, initialized, crashed, loadLog, deleted, bvars,
                   probe>>

\* an UnmarshalNewRecipe that also registers the recipe it returns
UnmarshalNewRecipeRegistering(data) ==
    /\ Ready
    /\ Len(heap) < MaxRecipes
    /\ \E res \in {UnmarshalNewRecipeOf(data, NewID)} :
           /\ heap' = IF res.err = NoErr THEN Append(heap, res.recipe) ELSE heap
           /\ consumers' = IF res.err = NoErr THEN consumers \cup {Len(heap) + 1} ELSE consumers
           /\ lastOp' = Op("UnmarshalNewRecipe", 0, res.err,
                           IF res.err = NoErr THEN Len(heap) + 1 ELSE 0, FALSE, data)
    /\ fired' = {} /\ busLog' = NoLog
    /\ UNCHANGED <<Recipes, files, started, initialized, crashed, loadLog, deleted,
                   bvars, probe, repeated>>

UnmarshalNewRecipe(data) ==
    /\ Ready
    /\ Len(heap) < MaxRecipes
    /\ \E res \in {UnmarshalNewRecipeOf(data, NewID)} :
           /\ heap' = IF res.err = NoErr THEN Append(heap, res.recipe) ELSE heap
           /\ lastOp' = Op("UnmarshalNewRecipe", 0, res.err,
                           IF res.err = NoErr THEN Len(heap) + 1 ELSE 0, FALSE, data)
    /\ fired' = {} /\ busLog' = NoLog
    /\ UNCHANGED <<Recipes, files, consumers, started, initialized, crashed, loadLog, deleted,
                   bvars, probe, repeated>>

\* ioutil.WriteFile(rm.recipePath(r), json.Marshal(out)) for the recipe r of heap h
WriteFile(h, r) ==
    [n \in DOMAIN files \cup {recipePath(h[r])} |->
        IF n = recipePath(h[r]) THEN recipeJSONOf(h[r]) ELSE files[n]]

\* SaveRecipe on the heap h; ioOK: the write succeeds
Save(h, r, appendTo, ioOK) ==
    /\ files' = IF ioOK THEN WriteFile(h, r) ELSE files
    /\ Recipes' = IF ioOK /\ appendTo THEN Append(Recipes, r) ELSE Recipes

\* a SaveRecipe that appends before it writes
SaveRecipeAppendingFirst(r, appendTo, ioOK) ==
    /\ Ready
    /\ appendTo => Len(Recipes) < MaxList
    /\ files' = IF ioOK THEN WriteFile(heap, r) ELSE files
    /\ Recipes' = IF appendTo THEN Append(Recipes, r) ELSE Recipes
    /\ lastOp' = Op("SaveRecipe", r, IF ioOK THEN NoErr ELSE ErrIO, 0, TRUE, NoData)
    /\ fired' = {} /\ busLog' = NoLog
    /\ UNCHANGED <<heap, consumers, started, initialized, crashed, loadLog, deleted, bvars, probe, repeated>>

SaveRecipe(r, appendTo, ioOK) ==
    /\ Ready
    /\ appendTo => Len(Recipes) < MaxList
    /\ Save(heap, r, appendTo, ioOK)
    /\ lastOp' = Op("SaveRecipe", r, IF ioOK THEN NoErr ELSE ErrIO, 0, TRUE, NoData)
    /\ fired' = {} /\ busLog' = NoLog
    /\ UNCHANGED <<heap, consumers, started, initialized, crashed, loadLog, deleted, bvars, probe, repeated>>

\* an EnableRecipe without the comparison with the old value
EnableRecipeAlwaysSaving(r, enabled, ioOK) ==
    /\ Ready
    /\ heap' = [heap EXCEPT ![r].Trigger.enabled = enabled]
    /\ Save(heap', r, FALSE, ioOK)
    /\ lastOp' = Op("EnableRecipe", r, IF ioOK THEN NoErr ELSE ErrIO, 0, TRUE, NoData)
    /\ fired' = {} /\ busLog' = NoLog
    /\ UNCHANGED <<consumers, started, initialized, crashed, loadLog, deleted, bvars,
                   probe, repeated>>

\* an EnableRecipe that takes the trigger of a recipe it disables off the broker
EnableRecipeUnregistering(r, enabled, ioOK) ==
    /\ Ready
    /\ IF heap[r].Trigger.enabled = enabled
       THEN /\ lastOp' = Op("EnableRecipe", r, NoErr, 0, FALSE, NoData)
            /\ UNCHANGED <<heap, files, Recipes, consumers>>
       ELSE /\ heap' = [heap EXCEPT ![r].Trigger.enabled = enabled]
            /\ Save(heap', r, FALSE, ioOK)
            /\ consumers' = IF enabled THEN consumers ELSE consumers \ {r}
            /\ lastOp' = Op("EnableRecipe", r, IF ioOK THEN NoErr ELSE ErrIO, 0, TRUE, NoData)
    /\ fired' = {} /\ busLog' = NoLog
    /\ UNCHANGED <<started, initialized, crashed, loadLog, deleted, bvars, probe, repeated>>

EnableRecipe(r, enabled, ioOK) ==
    /\ Ready
    /\ IF heap[r].Trigger.enabled = enabled
       THEN /\ lastOp' = Op("EnableRecipe", r, NoErr, 0, FALSE, NoData)
            /\ UNCHANGED <<heap, files, Recipes>>
       ELSE /\ heap' = [heap EXCEPT ![r].Trigger.enabled = enabled]
            /\ Save(heap', r, FALSE, ioOK)
            /\ lastOp' = Op("EnableRecipe", r, IF ioOK THEN NoErr ELSE ErrIO, 0, TRUE, NoData)
    /\ fired' = {} /\ busLog' = NoLog
    /\ UNCHANGED <<consumers, started, initialized, crashed, loadLog, deleted, bvars,
                   probe, repeated>>

\* rm.Recipes without its first recipe that has the ID id
RECURSIVE RemoveFirst(_, _)
RemoveFirst(list, id) ==
    IF list = <<>> THEN <<>>
    ELSE IF heap[Head(list)].Identifiable.ID = id THEN Tail(list)
    ELSE <<Head(list)>> \o RemoveFirst(Tail(list), id)

\* a DeleteRecipe that goes on when os.Remove fails
DeleteRecipeIgnoringRemove(r, ioOK) ==
    /\ Ready
    /\ files' = [n \in DOMAIN files \ {recipePath(heap[r])} |-> files[n]]
    /\ Recipes' = RemoveFirst(Recipes, heap[r].Identifiable.ID)
    /\ Unregister(r)
    /\ deleted' = deleted \cup {r}
    /\ repeated' = [start |-> repeated.start \ {r}, stop |-> repeated.stop \ {r}]
    /\ lastOp' = Op("DeleteRecipe", r, NoErr, 0, FALSE, NoData)
    /\ fired' = {} /\ busLog' = NoLog
    /\ UNCHANGED <<heap, initialized, crashed, loadLog, bvars, probe>>

\* a DeleteRecipe that cuts rm.Recipes off at the recipe it removes
DeleteRecipeTruncating(r, ioOK) ==
    /\ Ready
    /\ IF recipePath(heap[r]) \notin DOMAIN files \/ ~ioOK
       THEN /\ lastOp' = Op("DeleteRecipe", r,
                            IF recipePath(heap[r]) \notin DOMAIN files
                            THEN ErrNotExist ELSE ErrIO, 0, FALSE, NoData)
            /\ UNCHANGED <<files, Recipes, consumers, started, deleted, repeated>>
       ELSE /\ files' = [n \in DOMAIN files \ {recipePath(heap[r])} |-> files[n]]
            /\ Recipes' = SubSeq(Recipes, 1,
                                 Len(Recipes) - Len(RemoveFirst(Recipes, heap[r].Identifiable.ID)))
            /\ Unregister(r)
            /\ deleted' = deleted \cup {r}
            /\ repeated' = [start |-> repeated.start \ {r}, stop |-> repeated.stop \ {r}]
            /\ lastOp' = Op("DeleteRecipe", r, NoErr, 0, FALSE, NoData)
    /\ fired' = {} /\ busLog' = NoLog
    /\ UNCHANGED <<heap, initialized, crashed, loadLog, bvars, probe>>

DeleteRecipe(r, ioOK) ==
    /\ Ready
    /\ IF recipePath(heap[r]) \notin DOMAIN files \/ ~ioOK
       THEN /\ lastOp' = Op("DeleteRecipe", r,
                            IF recipePath(heap[r]) \notin DOMAIN files
                            THEN ErrNotExist ELSE ErrIO, 0, FALSE, NoData)
            /\ UNCHANGED <<files, Recipes, consumers, started, deleted, repeated>>
       ELSE /\ files' = [n \in DOMAIN files \ {recipePath(heap[r])} |-> files[n]]
            /\ Recipes' = RemoveFirst(Recipes, heap[r].Identifiable.ID)
            /\ Unregister(r)
            /\ deleted' = deleted \cup {r}
            /\ repeated' = [start |-> repeated.start \ {r}, stop |-> repeated.stop \ {r}]
            /\ lastOp' = Op("DeleteRecipe", r, NoErr, 0, FALSE, NoData)
    /\ fired' = {} /\ busLog' = NoLog
    /\ UNCHANGED <<heap, initialized, crashed, loadLog, bvars, probe>>

\* a device's producer enqueues an event on the broker
Enqueue(e) ==
    /\ Ready
    /\ BrokerEnqueue(e, 0)
    /\ lastOp' = Op("Enqueue", 0, NoErr, 0, FALSE, NoData)
    /\ UNCHANGED <<heap, Recipes, files, consumers, started, initialized, crashed, loadLog,
                   deleted, bvars, probe, repeated>>

(***************************************************************************)
(* SupressFeatureReporting: three calls on the event bus, one after the    *)
(* other, which producers and other callers may interleave with.           *)
(***************************************************************************)
rvars == <<heap, Recipes, files, consumers, started, initialized, crashed, lastOp, loadLog,
           deleted, repeated>>

\* EvtBus.RemoveEnqueueFilter(featureID): the filters without that of featureID
RemoveEnqueueFilter(featureID) == {f \in filters : f.featureID # featureID}

\* an AddEnqueueFilter that leaves the filter the feature has in place
AddEnqueueFilterBeside(featureID, ttl) ==
    filters \cup {[featureID |-> featureID, expiry |-> now + ttl]}

\* EvtBus.AddEnqueueFilter(featureID, predicate, ttl): the filter of featureID is
\* replaced by one that expires ttl from now
AddEnqueueFilter(featureID, ttl) ==
    RemoveEnqueueFilter(featureID) \cup {[featureID |-> featureID, expiry |-> now + ttl]}

\* the call begins: sys.Services.EvtBus.RemoveEnqueueFilter(featureID)
SupressFeatureReportingRemove(c, featureID, attrs, delay) ==
    /\ pc[c] = "idle"
    /\ filters' = RemoveEnqueueFilter(featureID)
    /\ installed' = [f \in DOMAIN installed |->
                        IF f = featureID THEN [installed[f] EXCEPT !.removed = TRUE]
                        ELSE installed[f]]
    /\ args' = [args EXCEPT ![c] = [featureID |-> featureID, attrs |-> attrs,
                                    delay |-> delay]]
    /\ pc' = [pc EXCEPT ![c] = "enqueue"]
    /\ synth' = [synth EXCEPT ![c] = "none"]
    /\ busLog' = NoLog /\ fired' = {}
    /\ UNCHANGED <<now, rvars, probe>>

\* if attrs != nil { sys.Services.EvtBus.Enqueue(&FeatureReportingEvt{...}) }
SupressFeatureReportingEnqueue(c) ==
    /\ pc[c] = "enqueue"
    /\ IF args[c].attrs # "nil"
       THEN /\ BrokerEnqueue(FeatureReportingEvt(args[c].featureID, args[c].attrs), c)
            /\ synth' = [synth EXCEPT ![c] =
                            IF Filtered(FeatureReportingEvt(args[c].featureID, args[c].attrs))
                            THEN "dropped" ELSE "delivered"]
       ELSE /\ busLog' = NoLog /\ fired' = {}
            /\ UNCHANGED synth
    /\ pc' = [pc EXCEPT ![c] = "add"]
    /\ UNCHANGED <<filters, installed, args, now, rvars, probe>>

\* sys.Services.EvtBus.AddEnqueueFilter(featureID, func ..., delay); the call returns
SupressFeatureReportingAdd(c) ==
    /\ pc[c] = "add"
    /\ filters' = AddEnqueueFilter(args[c].featureID, args[c].delay)
    /\ installed' = [f \in DOMAIN installed \cup {args[c].featureID} |->
                        IF f = args[c].featureID
                        THEN [at |-> now, delay |-> args[c].delay, removed |-> FALSE]
                        ELSE installed[f]]
    /\ pc' = [pc EXCEPT ![c] = "idle"]
    /\ args' = [args EXCEPT ![c] = NoArgs]
    /\ synth' = [synth EXCEPT ![c] = "none"]
    /\ busLog' = NoLog /\ fired' = {}
    /\ UNCHANGED <<now, rvars, probe>>

\* a clock that leaves the expired filters in place
TickKeeping ==
    /\ now < MaxTime
    /\ now' = now + 1
    /\ busLog' = NoLog /\ fired' = {}
    /\ UNCHANGED <<filters, installed, pc, args, synth, rvars, probe>>

\* the clock advances; the broker evicts the filters that expire
Tick ==
    /\ now < MaxTime
    /\ now' = now + 1
    /\ filters' = {f \in filters : f.expiry > now + 1}
    /\ busLog' = NoLog /\ fired' = {}
    /\ UNCHANGED <<installed, pc, args, synth, rvars, probe>>

(***************************************************************************)
(* The storage directories the manager may start on and the submissions    *)
(* it is given.                                                            *)
(***************************************************************************)
Ident(id) == [ID |-> id, Name |-> "n", Description |-> "d"]

Level75 == WNum(<<0, 75, 0>>)
ButtonFields(b) == ("ButtonID" :> WStr(b)) @@ ("MaxDuration" :> WNum(<<0, 0, 0>>))
ZoneFields == ("Level" :> Level75) @@ ("ZoneID" :> WStr("z1"))

GoodFile(id, enabled) ==
    MkFile(TRUE, Ident(id), enabled, ButtonTrigger, ButtonFields("b1"),
           ZoneSetLevelAction, ZoneFields)
\* the ZoneID of the action is a number
MismatchFile(id) ==
    MkFile(TRUE, Ident(id), TRUE, ButtonTrigger, ButtonFields("b1"),
           ZoneSetLevelAction, ("Level" :> Level75) @@ ("ZoneID" :> Level75))
\* not JSON
BadFile(id) ==
    MkFile(FALSE, Ident(id), FALSE, "", EmptyMap, "", EmptyMap)
\* a trigger type no cook book has
UnknownTypeFile(id) ==
    MkFile(TRUE, Ident(id), TRUE, "gohome.MotionTrigger", EmptyMap,
           ZoneSetLevelAction, ZoneFields)

InitialDirs ==
    { EmptyMap,
      ("r1" :> GoodFile("r1", TRUE)) @@ ("r2" :> GoodFile("r2", FALSE)),
      ("r1" :> MismatchFile("r1")) @@ ("r2" :> GoodFile("r2", TRUE)),
      ("r1" :> BadFile("r1")) @@ ("r2" :> GoodFile("r2", TRUE)),
      ("r1" :> GoodFile("r1", TRUE)) @@ ("r2" :> UnknownTypeFile("r2")),
      ("r1" :> GoodFile("r1", TRUE)) @@ ("r2" :> GoodFile("r1", TRUE)),
      ("r1" :> GoodFile("r1", FALSE)) @@ ("r2" :> MismatchFile("r2")) }

Str(s) == WStr(s)
ObjV == WObj
TriggerObj(id, values) == Obj(WStr(id), WObj, values)
GoodAction == Obj(WStr(ZoneSetLevelAction), WObj, ZoneFields)
Form(triggerObj, actionObj) == Submission(WStr("n"), WStr("d"), WObj, triggerObj, WObj, actionObj)

Submissions ==
    { \* well-formed
      Form(TriggerObj(ButtonTrigger, "ButtonID" :> WStr("b1")), GoodAction),
      Form(TriggerObj(ButtonTrigger,
                      ("ButtonID" :> WStr("b2")) @@ ("MaxDuration" :> WNum(<<0, 1500, 0>>))),
           GoodAction),
      Form(TriggerObj(TimeTrigger, ("Time" :> WStr("20:00")) @@ ("Forever" :> WBool(TRUE))),
           GoodAction),
      \* a value of the wrong type, after a value that was bound
      Form(TriggerObj(ButtonTrigger,
                      ("ButtonID" :> WStr("b1")) @@ ("MaxDuration" :> WStr("1500"))),
           GoodAction),
      Form(TriggerObj(ButtonTrigger, "ButtonID" :> WStr("b1")),
           Obj(WStr(ZoneSetLevelAction), WObj, ("Level" :> Level75) @@ ("ZoneID" :> WBool(TRUE)))),
      Form(TriggerObj(TimeTrigger, ("Time" :> WStr("20:00")) @@ ("Iterations" :> WNull)),
           GoodAction),
      \* a required ingredient is missing
      Form(TriggerObj(ButtonTrigger, "ButtonID" :> WStr("b1")),
           Obj(WStr(ZoneSetLevelAction), WObj, "Level" :> Level75)),
      \* malformed
      Submission(Missing, WStr("d"), WObj, TriggerObj(ButtonTrigger, EmptyMap), WObj, GoodAction),
      Form(TriggerObj("gohome.MotionTrigger", EmptyMap), GoodAction) }

ManagerEvents == {ButtonPressEvt("b1"), ButtonPressEvt("b2")}

Callers == 1..MaxCallers
NoProbe == [stage |-> "none"]

BusIdle ==
    /\ filters = {}
    /\ now = 0
    /\ pc = [c \in Callers |-> "idle"]
    /\ args = [c \in Callers |-> NoArgs]
    /\ synth = [c \in Callers |-> "none"]
    /\ busLog = NoLog
    /\ installed = EmptyMap

ManagerIdle ==
    /\ heap = <<>>
    /\ Recipes = <<>>
    /\ consumers = {Observer}
    /\ started = {}
    /\ initialized = FALSE
    /\ crashed = FALSE
    /\ lastOp = Op("", 0, NoErr, 0, FALSE, NoData)
    /\ loadLog = <<>>
    /\ fired = {}
    /\ deleted = {}
    /\ repeated = NoRepeat

\* the directories and submissions of the manager's life cycle
LifecycleDirs ==
    { EmptyMap,
      ("r1" :> GoodFile("r1", TRUE)) @@ ("r2" :> GoodFile("r2", FALSE)) }

LifecycleSubmissions ==
    { Form(TriggerObj(ButtonTrigger, "ButtonID" :> WStr("b1")), GoodAction),
      Form(TriggerObj(ButtonTrigger, "ButtonID" :> WStr("b1")),
           Obj(WStr(ZoneSetLevelAction), WObj, "Level" :> Level75)) }

\* the manager is constructed and rm.Init has not run yet
Init ==
    /\ ManagerIdle
    /\ files \in LifecycleDirs
    /\ BusIdle
    /\ probe = NoProbe

Next ==
    \/ RMInit
    \/ \E data \in LifecycleSubmissions : UnmarshalNewRecipe(data)
    \/ \E r \in Refs, appendTo \in BOOLEAN, ioOK \in BOOLEAN : SaveRecipe(r, appendTo, ioOK)
    \/ \E r \in Refs : RegisterAndStart(r)
    \/ \E r \in Refs : UnregisterAndStop(r)
    \/ \E r \in Refs, enabled \in BOOLEAN, ioOK \in BOOLEAN : EnableRecipe(r, enabled, ioOK)
    \/ \E r \in Refs, ioOK \in BOOLEAN : DeleteRecipe(r, ioOK)
    \/ \E e \in ManagerEvents : Enqueue(e)

\* the life cycle of the recipes of a manager
Spec == Init /\ [][Next]_vars

\* creation: rm.Init on every directory, UnmarshalNewRecipe on every submission
InitCreate ==
    /\ ManagerIdle
    /\ files \in InitialDirs
    /\ BusIdle
    /\ probe = NoProbe

NextCreate ==
    \/ RMInit
    \/ \E data \in Submissions : UnmarshalNewRecipe(data)
    \/ \E r \in Refs : SaveRecipe(r, TRUE, TRUE)
    \/ \E r \in Refs : RegisterAndStart(r)

SpecCreate == InitCreate /\ [][NextCreate]_vars

(***************************************************************************)
(* The event bus under SupressFeatureReporting: callers, device producers  *)
(* and the clock.                                                          *)
(***************************************************************************)
Features == {"f1", "f2"}
\* attrs: nil or a map of attributes
Attrs == {"nil", "on"}
Delays == {1, 2}
BusEvents == {FeatureReportingEvt(f, "polled") : f \in Features} \cup {ButtonPressEvt("b1")}

\* a running system without recipes
InitBus ==
    /\ heap = <<>>
    /\ Recipes = <<>>
    /\ files = EmptyMap
    /\ consumers = {Observer}
    /\ started = {}
    /\ initialized = TRUE
    /\ crashed = FALSE
    /\ lastOp = Op("Init", 0, NoErr, 0, FALSE, NoData)
    /\ loadLog = <<>>
    /\ fired = {}
    /\ deleted = {}
    /\ repeated = NoRepeat
    /\ BusIdle
    /\ probe = NoProbe

NextBus ==
    \/ \E c \in Callers, featureID \in Features, attrs \in Attrs, delay \in Delays :
           SupressFeatureReportingRemove(c, featureID, attrs, delay)
    \/ \E c \in Callers : SupressFeatureReportingEnqueue(c)
    \/ \E c \in Callers : SupressFeatureReportingAdd(c)
    \/ \E e \in BusEvents : Enqueue(e)
    \/ Tick

SpecBus == InitBus /\ [][NextBus]_vars

(***************************************************************************)
(* Binding, saving and loading on their own: every variant with every      *)
(* mapping of ingredient values.                                           *)
(***************************************************************************)
\* the values a mapping may hold for an ingredient of a type: well-typed ones
\* (3, 2.75, 75, 0.75, 1500 ms, 10^13 ms) and one of another type
Candidates(type) ==
    CASE type = "string" -> {WStr("b1"), WNum(<<0, 3, 0>>)}
      [] type = "boolean" -> {WBool(TRUE), WStr("yes")}
      [] type = "integer" -> {WNum(<<0, 3, 0>>), WNum(<<0, 2, 3>>), WNull}
      [] type = "float" -> {WNum(<<0, 75, 0>>), WNum(<<0, 0, 3>>), WStr("75")}
      [] type = "duration" -> {WNum(<<0, 1500, 0>>), WNum(<<10000000, 0, 0>>), WBool(TRUE)}
      [] type = "datetime" -> {WStr("20:00")}

IngredientTypes == {"string", "boolean", "integer", "float", "duration", "datetime"}

IngredientOf(t, id) == CHOOSE g \in {Ingredients(t)[i] : i \in 1..Len(Ingredients(t))} : g.ID = id

\* the mappings of ingredient values for the variant t
ValueMaps(t) ==
    UNION { {f \in [S -> UNION {Candidates(type) : type \in IngredientTypes}] :
                \A id \in S : f[id] \in Candidates(IngredientOf(t, id).Type)} :
            S \in SUBSET IngredientIDs(t) }

NoBinding == [err |-> NoErr, s |-> <<>>]
NoLoad == [panic |-> FALSE, err |-> NoErr, recipe |-> NilRecipe]

BindInput(enabled, ttype, tvalues, atype, avalues) ==
    [stage |-> "input", enabled |-> enabled, ttype |-> ttype, tvalues |-> tvalues,
     atype |-> atype, avalues |-> avalues, bt |-> NoBinding, ba |-> NoBinding,
     recipe |-> NilRecipe, file |-> <<>>, loaded |-> NoLoad]

BindInputs ==
    UNION { UNION { {BindInput(enabled, ttype, tvalues, atype, avalues) :
                        enabled \in BOOLEAN, tvalues \in ValueMaps(ttype),
                        avalues \in ValueMaps(atype)} :
                    atype \in CookBookActions } :
            ttype \in CookBookTriggers }

\* setIngredients on a fresh instance of the trigger and of the action
ProbeBind ==
    /\ probe.stage = "input"
    /\ probe' = [probe EXCEPT
                    !.stage = "bound",
                    !.bt = setIngredients(Ingredients(probe.ttype), probe.tvalues,
                                          New(probe.ttype)),
                    !.ba = setIngredients(Ingredients(probe.atype), probe.avalues,
                                          New(probe.atype))]
    /\ UNCHANGED <<mvars, bvars, busLog>>

\* the recipe of the two instances, and the file SaveRecipe writes for it
ProbeSave ==
    /\ probe.stage = "bound"
    /\ probe.bt.err = NoErr /\ probe.ba.err = NoErr
    /\ \E r \in {NewRecipe("r1", "n", "d", probe.enabled, probe.ttype, probe.bt.s,
                           probe.atype, probe.ba.s)} :
           probe' = [probe EXCEPT !.stage = "saved", !.recipe = r, !.file = recipeJSONOf(r)]
    /\ UNCHANGED <<mvars, bvars, busLog>>

\* loadRecipe on the file written
ProbeLoad ==
    /\ probe.stage = "saved"
    /\ probe' = [probe EXCEPT !.stage = "loaded", !.loaded = loadRecipe(probe.file)]
    /\ UNCHANGED <<mvars, bvars, busLog>>

InitBind ==
    /\ ManagerIdle
    /\ files = EmptyMap
    /\ BusIdle
    /\ probe \in BindInputs

NextBind ==
    \/ ProbeBind
    \/ ProbeSave
    \/ ProbeLoad

SpecBind == InitBind /\ [][NextBind]_vars

(***************************************************************************)
(* UnmarshalNewRecipe on every shape of submission: each key missing, of   *)
(* the wrong type or right, each ID known or not.                          *)
(***************************************************************************)
KeyValues(kind) ==
    IF kind = "string" THEN {Missing, WNum(<<0, 3, 0>>), WStr("n")}
    ELSE {Missing, WStr("n"), WObj}

IDValues(factory) ==
    {Missing, WNum(<<0, 3, 0>>), WStr("gohome.MotionTrigger")} \cup {WStr(t) : t \in factory}

\* the values of a trigger or action object: those of a complete, well-typed binding
GoodValues(id) ==
    CASE id = WStr(ButtonTrigger) -> ButtonFields("b1")
      [] id = WStr(TimeTrigger) -> "Time" :> WStr("20:00")
      [] id = WStr(ZoneSetLevelAction) -> ZoneFields
      [] id = WStr(SceneSetAction) -> "SceneID" :> WStr("s1")
      [] OTHER -> EmptyMap

SubmitInputs ==
    { [stage |-> "input",
       data |-> Submission(name, description, trigger, Obj(tid, tingredients, GoodValues(tid)),
                           action, Obj(aid, aingredients, GoodValues(aid))),
       res |-> Fail("")] :
      name \in KeyValues("string"), description \in KeyValues("string"),
      trigger \in KeyValues("object"), tid \in IDValues({ButtonTrigger}),
      tingredients \in KeyValues("object"),
      action \in KeyValues("object"), aid \in IDValues({ZoneSetLevelAction}),
      aingredients \in KeyValues("object") }

ProbeSubmit ==
    /\ probe.stage = "input"
    /\ probe' = [probe EXCEPT !.stage = "submitted",
                              !.res = UnmarshalNewRecipeOf(probe.data, "r1")]
    /\ UNCHANGED <<mvars, bvars, busLog>>

InitSubmit ==
    /\ ManagerIdle
    /\ files = EmptyMap
    /\ BusIdle
    /\ probe \in SubmitInputs

NextSubmit == ProbeSubmit

SpecSubmit == InitSubmit /\ [][NextSubmit]_vars

(***************************************************************************)
(* Properties.                                                             *)
(***************************************************************************)

\* C1: once DeleteRecipe(r) has returned success, r's trigger is not a consumer
\* of the broker and no event enqueued later, matching or not, executes r's
\* Action (until r is registered again).
NoStaleSubscription ==
    /\ fired \cap deleted = {}
    /\ deleted \cap consumers = {}

\* an event matching the enabled trigger of a deleted recipe was enqueued and
\* delivered; another recipe fired on it, the deleted one did not
DeletedRecipeMissesMatchingEvent ==
    /\ busLog.evt # NoEvt
    /\ busLog.to # {}
    /\ fired # {}
    /\ \E r \in deleted :
           /\ heap[r].Trigger.enabled
           /\ Matches(heap[r].Trigger, busLog.evt)
           /\ r \notin fired

\* C2: a recipe saved by SaveRecipe and reloaded by loadRecipe from the file
\* written is the recipe that was saved: same Identifiable, type tags, enabled
\* flag and value of every ingredient.
RoundTrip ==
    probe.stage = "loaded" =>
        /\ ~probe.loaded.panic
        /\ probe.loaded.err = NoErr
        /\ probe.loaded.recipe = probe.recipe

\* C3: in a call of SupressFeatureReporting with non-nil attrs, when the call
\* comes to install its filter, its synthetic event has been delivered to the
\* consumers (no filter dropped it).
SyntheticDeliveredBeforeFilter ==
    \A c \in Callers :
        pc[c] = "add" /\ args[c].attrs # "nil" => synth[c] = "delivered"

EnableRecipeSameStateIsNoOp ==
    [][\A r \in Refs, ioOK \in BOOLEAN :
           EnableRecipe(r, heap[r].Trigger.enabled, ioOK) =>
               /\ lastOp'.err = NoErr
               /\ ~lastOp'.wrote
               /\ files' = files
               /\ heap' = heap
               /\ Recipes' = Recipes
               /\ consumers' = consumers]_vars

\* EnableRecipe returned nil without a write, for a recipe that has no file
EnabledSameStateUnsaved ==
    /\ lastOp.op = "EnableRecipe"
    /\ lastOp.err = NoErr
    /\ ~lastOp.wrote
    /\ recipePath(heap[lastOp.r]) \notin DOMAIN files

\* C6: DeleteRecipe for a recipe ID that does not exist (no file is persisted
\* under it) fails with the not-found error of os.Remove and leaves the
\* Recipes list, the files and the consumers unchanged.
DeleteMissingFails ==
    [][\A r \in Refs, ioOK \in BOOLEAN :
           DeleteRecipe(r, ioOK) /\ recipePath(heap[r]) \notin DOMAIN files =>
               /\ lastOp'.err = ErrNotExist
               /\ Recipes' = Recipes
               /\ files' = files
               /\ consumers' = consumers]_vars

\* DeleteRecipe failed with not-found for an ID that is neither in the (non-empty)
\* Recipes list nor persisted
DeletedMissingID ==
    /\ lastOp.op = "DeleteRecipe"
    /\ lastOp.err = ErrNotExist
    /\ Recipes # <<>>
    /\ \A i \in 1..Len(Recipes) :
           heap[Recipes[i]].Identifiable.ID # heap[lastOp.r].Identifiable.ID
    /\ recipePath(heap[lastOp.r]) \notin DOMAIN files

\* the type a decoded JSON value must have for an ingredient type, and the
\* type an error message asks for
WireKind(type) ==
    CASE type = "string" -> "string"
      [] type = "boolean" -> "bool"
      [] OTHER -> "float64"

TypeName(type) ==
    CASE type = "string" -> "a string"
      [] type = "boolean" -> "a boolean"
      [] type = "float" -> "a float"
      [] OTHER -> "an integer"

\* err names an ingredient of the variant whose value in the mapping has the
\* wrong type, and the type it must have
NamesMismatch(variant, values, err) ==
    \E i \in 1..Len(Ingredients(variant)) :
        LET ingredient == Ingredients(variant)[i]
        IN  /\ err.id = ingredient.ID
            /\ ingredient.ID \in DOMAIN values
            /\ values[ingredient.ID].k # WireKind(ingredient.Type)
            /\ err.must = TypeName(ingredient.Type)

\* C7: when setIngredients fails on a type mismatch, the error names the
\* ingredient and the expected type, no recipe is returned, and the heap, the
\* Recipes list and the consumers get no instance of the failed binding: in
\* UnmarshalNewRecipe nothing changes, in Init the file is logged and skipped
\* and every recipe loaded is the complete binding of another file.
BindingIsAtomic ==
    [][/\ lastOp'.op = "UnmarshalNewRecipe" /\ lastOp'.err.kind = "Invalid type" =>
              /\ \/ NamesMismatch(lastOp'.data.triggerObj.id.s,
                                  lastOp'.data.triggerObj.values, lastOp'.err)
                 \/ NamesMismatch(lastOp'.data.actionObj.id.s,
                                  lastOp'.data.actionObj.values, lastOp'.err)
              /\ lastOp'.ret = 0
              /\ heap' = heap
              /\ Recipes' = Recipes
              /\ consumers' = consumers
              /\ started' = started
       /\ lastOp'.op = "Init" /\ ~crashed' =>
              /\ Len(heap') + Len(loadLog') = Cardinality(DOMAIN files)
              /\ \A i \in 1..Len(loadLog') :
                     loadLog'[i].err.kind = "Invalid type" =>
                         \/ NamesMismatch(files[loadLog'[i].file].Trigger.type,
                                          files[loadLog'[i].file].Trigger.fields,
                                          loadLog'[i].err)
                         \/ NamesMismatch(files[loadLog'[i].file].Action.type,
                                          files[loadLog'[i].file].Action.fields,
                                          loadLog'[i].err)
              /\ \A r \in 1..Len(heap') :
                     \E n \in DOMAIN files \ {loadLog'[i].file : i \in 1..Len(loadLog')} :
                         heap'[r] = loadRecipe(files[n]).recipe
              /\ consumers' = {Observer} \cup (1..Len(heap'))]_vars

\* UnmarshalNewRecipe failed on the MaxDuration of a trigger whose ButtonID had
\* been bound before
MismatchAfterBoundValue ==
    /\ lastOp.op = "UnmarshalNewRecipe"
    /\ lastOp.err.kind = "Invalid type"
    /\ lastOp.err.id = "MaxDuration"
    /\ "ButtonID" \in DOMAIN lastOp.data.triggerObj.values
    /\ lastOp.data.triggerObj.values["ButtonID"].k = "string"
    /\ lastOp.ret = 0

\* binding the mapping values to the variant gave b: a required ingredient
\* without an entry is an error; without such an ingredient and without a value
\* of a wrong type there is no error; and after a binding without error the
\* field of every optional ingredient without an entry has the value of New()
RequiredAndOptional(variant, values, b) ==
    LET ings == Ingredients(variant)
        idx == 1..Len(ings)
    IN  /\ (\E i \in idx : ings[i].Required /\ ings[i].ID \notin DOMAIN values)
               => b.err # NoErr
        /\ ( /\ \A i \in idx : ings[i].Required => ings[i].ID \in DOMAIN values
             /\ \A i \in idx : ings[i].ID \in DOMAIN values =>
                    \/ ings[i].Type = "datetime"
                    \/ values[ings[i].ID].k = WireKind(ings[i].Type) )
               => b.err = NoErr
        /\ b.err = NoErr =>
               \A i \in idx : ~ings[i].Required /\ ings[i].ID \notin DOMAIN values =>
                   b.s[ings[i].ID] = New(variant)[ings[i].ID]

\* C8: for every variant and every mapping, binding fails when a required
\* ingredient has no entry; an optional ingredient without an entry does not
\* make it fail, and its field keeps the zero value.
RequiredMissingFailsOptionalStaysZero ==
    probe.stage \in {"bound", "saved", "loaded"} =>
        /\ RequiredAndOptional(probe.ttype, probe.tvalues, probe.bt)
        /\ RequiredAndOptional(probe.atype, probe.avalues, probe.ba)

\* a button trigger bound without its optional MaxDuration, and an action whose
\* binding failed for its missing required ZoneID
OptionalAbsentRequiredAbsent ==
    /\ probe.stage = "bound"
    /\ probe.ttype = ButtonTrigger
    /\ "MaxDuration" \notin DOMAIN probe.tvalues
    /\ probe.bt.err = NoErr
    /\ probe.bt.s["MaxDuration"] = GDuration(<<0, 0, 0>>)
    /\ probe.atype = ZoneSetLevelAction
    /\ "Level" \in DOMAIN probe.avalues
    /\ "ZoneID" \notin DOMAIN probe.avalues
    /\ probe.ba.err = ErrMissingIngredient

\* the message for a key that is missing or of the wrong type, "" for a key
\* that is right
KeyMessage(v, kind, missing, invalid) ==
    IF v.k = "missing" THEN missing ELSE IF v.k # kind THEN invalid ELSE ""

\* the checks of a submission in the order name, description, trigger,
\* trigger.id, trigger.ingredients, trigger ID known, action, action.id,
\* action.ingredients, action ID known: the message of each, "" if it passes
Violations(data) ==
    << KeyMessage(data.name, "string", "Missing name key",
                  "Invalid value for name, must be a string"),
       KeyMessage(data.description, "string", "Missing description key",
                  "Invalid value for description, must be a string"),
       KeyMessage(data.trigger, "object", "Missing trigger key",
                  "Invalid value for trigger, must be an object"),
       KeyMessage(data.triggerObj.id, "string", "Missing id key in trigger object",
                  "Invalid value, trigger.id must be a string"),
       KeyMessage(data.triggerObj.ingredients, "object", "Missing trigger.ingredients key",
                  "Invalid value for trigger.ingredients, must be an object"),
       IF data.triggerObj.id.s \in CookBookTriggers THEN "" ELSE "Invalid trigger ID",
       KeyMessage(data.action, "object", "Missing action key",
                  "Invalid value for action, must be an object"),
       KeyMessage(data.actionObj.id, "string", "Missing id key in action object",
                  "Invalid value, action.id must be a string"),
       KeyMessage(data.actionObj.ingredients, "object", "Missing action.ingredients key",
                  "Invalid value for action.ingredients, must be an object"),
       IF data.actionObj.id.s \in CookBookActions THEN "" ELSE "Invalid action ID" >>

Violated(data) == {i \in 1..Len(Violations(data)) : Violations(data)[i] # ""}

FirstViolation(data) == CHOOSE i \in Violated(data) : \A j \in Violated(data) : i <= j

\* C9: for a submission that violates some check, UnmarshalNewRecipe returns
\* the error of the first violation in the order of the checks and no recipe,
\* and has constructed no trigger or action instance.
FailFastInOrder ==
    probe.stage = "submitted" /\ Violated(probe.data) # {} =>
        /\ probe.res.err.kind = Violations(probe.data)[FirstViolation(probe.data)]
        /\ DOMAIN probe.res.recipe = {}
        /\ ~probe.res.built

\* a submission with a description of the wrong type and without an action:
\* the error is that of the description
FirstOfTwoViolations ==
    /\ probe.stage = "submitted"
    /\ probe.data.name.k = "string"
    /\ probe.data.description.k = "float64"
    /\ probe.data.action.k = "missing"
    /\ probe.res.err.kind = "Invalid value for description, must be a string"
    /\ ~probe.res.built

\* C10: a successful UnmarshalNewRecipe returns a new recipe whose trigger is
\* enabled; the recipes there were, the Recipes list, the files, the broker's
\* consumers and the started triggers are as before the call.
UnmarshalNewRecipeOnlyReturns ==
    [][lastOp'.op = "UnmarshalNewRecipe" /\ lastOp'.err = NoErr =>
           /\ lastOp'.ret = Len(heap) + 1
           /\ Len(heap') = Len(heap) + 1
           /\ heap'[lastOp'.ret].Trigger.enabled
           /\ SubSeq(heap', 1, Len(heap)) = heap
           /\ Recipes' = Recipes
           /\ files' = files
           /\ consumers' = consumers
           /\ started' = started]_vars

\* UnmarshalNewRecipe returned a recipe, enabled, that is not in the (non-empty)
\* Recipes list, not persisted and not registered
ReturnedUnsavedUnregistered ==
    /\ lastOp.op = "UnmarshalNewRecipe"
    /\ lastOp.err = NoErr
    /\ lastOp.ret \in Refs
    /\ heap[lastOp.ret].Trigger.enabled
    /\ Recipes # <<>>
    /\ \A i \in 1..Len(Recipes) : Recipes[i] # lastOp.ret
    /\ recipePath(heap[lastOp.ret]) \notin DOMAIN files
    /\ lastOp.ret \notin consumers


(***************************************************************************)
(* rm.Init on a directory with files that do not load.                     *)
(***************************************************************************)
\* the file loads: it is read, parsed and bound, and no factory entry is missing
Loads(file) == ~loadRecipe(file).panic /\ loadRecipe(file).err = NoErr

\* the recipes of the files of the directory that load, in directory order
LoadableRecipes ==
    LET names == SelectSeq(DirNames, LAMBDA n : Loads(files[n]))
    IN  [i \in 1..Len(names) |-> loadRecipe(files[names[i]]).recipe]

\* the type tag of the file's trigger or action is no key of the factories
UnknownType(file) ==
    file.json /\ (file.Trigger.type \notin triggerFactory \/ file.Action.type \notin actionFactory)

\* C11: whatever the files of the directory, rm.Init returns success and
\* rm.Recipes holds exactly the recipes of the files that load, in directory
\* order; a file that does not load is skipped and never makes Init fail.
InitSkipsOnlyTheBadFiles ==
    lastOp.op = "Init" =>
        /\ ~crashed
        /\ initialized
        /\ [i \in 1..Len(Recipes) |-> heap[Recipes[i]]] = LoadableRecipes

\* C12: a file whose Trigger.type or Action.type is no key of the factories is
\* an error of that file only: rm.Init prints it, skips the file and goes on;
\* the process never aborts.
UnknownTypeIsAnErrorOfItsFile ==
    /\ ~crashed
    /\ lastOp.op = "Init" =>
           \A n \in DOMAIN files :
               UnknownType(files[n]) => \E i \in DOMAIN loadLog : loadLog[i].file = n

\* C13: when rm.Init has returned success, the trigger of every recipe of
\* rm.Recipes is a consumer of the broker and is started, whether the recipe was
\* persisted as enabled or as disabled, and every trigger that is registered is
\* that of a file that loaded: none of a skipped file.
LoadedRecipesAreRegisteredAndStarted ==
    lastOp.op = "Init" /\ initialized =>
        /\ \A i \in 1..Len(Recipes) : Recipes[i] \in consumers /\ Recipes[i] \in started
        /\ \A r \in (consumers \cup started) \ {Observer} :
               /\ \E i \in 1..Len(Recipes) : Recipes[i] = r
               /\ \E n \in DOMAIN files :
                      Loads(files[n]) /\ heap[r] = loadRecipe(files[n]).recipe

\* rm.Init returned success on a directory with a file it skipped and a recipe
\* persisted as disabled, whose trigger is registered and started
DisabledLoadedBesideSkipped ==
    /\ lastOp.op = "Init" /\ initialized
    /\ loadLog # <<>>
    /\ \E i \in 1..Len(Recipes) :
           /\ ~heap[Recipes[i]].Trigger.enabled
           /\ Recipes[i] \in consumers
           /\ Recipes[i] \in started

\* C14: EnableRecipe leaves the broker's consumers and the started triggers as
\* they are, and of the started, registered triggers an event is delivered to,
\* exactly the enabled ones whose condition matches execute their Action: a
\* disabled trigger stays registered and silent, and fires again once
\* EnableRecipe(r, true) has run, without being registered anew.
DisabledStaysRegisteredAndSilent ==
    [][/\ \A r \in Refs, enabled \in BOOLEAN, ioOK \in BOOLEAN :
              EnableRecipe(r, enabled, ioOK) =>
                  /\ consumers' = consumers
                  /\ started' = started
                  /\ heap'[r].Trigger.enabled = enabled
       /\ \A e \in ManagerEvents :
              Enqueue(e) =>
                  \A r \in (started \cap consumers) \ {Observer} :
                      r \in fired' <=>
                          heap[r].Trigger.enabled /\ Matches(heap[r].Trigger, e)]_vars

\* one event matching two started, registered triggers: the disabled one is
\* silent, and the one whose file still says disabled (EnableRecipe(r, true)
\* enabled it since) fires
DisabledSilentReenabledFires ==
    /\ busLog.evt # NoEvt
    /\ \E r \in (started \cap busLog.to) \ {Observer} :
           /\ ~heap[r].Trigger.enabled
           /\ Matches(heap[r].Trigger, busLog.evt)
           /\ r \notin fired
    /\ \E r \in fired :
           /\ recipePath(heap[r]) \in DOMAIN files
           /\ ~files[recipePath(heap[r])].enabled

MaxProducers == 2
Producers == 1..MaxProducers

\* a producer's call of Enqueue: the event, the consumers still to be invoked,
\* those invoked, and the recipes that were stopped when the call began
NoDelivery == [evt |-> NoEvt, pending |-> {}, invoked |-> {}, stopped |-> {}]
NoDeliveries == [stage |-> "deliver", inflight |-> [p \in Producers |-> NoDelivery]]

\* Enqueue(e) begins: the event passes the filters and the broker takes the
\* consumers registered now
DeliverBegin(p, e) ==
    /\ Ready
    /\ probe.stage = "deliver"
    /\ probe.inflight[p] = NoDelivery
    /\ probe' = [probe EXCEPT !.inflight[p] =
                     [evt |-> e, pending |-> Receivers(e), invoked |-> {},
                      stopped |-> Refs \ started]]
    /\ lastOp' = Op("Enqueue", 0, NoErr, 0, FALSE, NoData)
    /\ fired' = {} /\ busLog' = NoLog
    /\ UNCHANGED <<heap, Recipes, files, consumers, started, initialized, crashed, loadLog,
                   deleted, repeated, bvars>>

\* the broker invokes the consumer c of the delivery of p; a started, enabled
\* trigger whose condition matches executes its Action
DeliverTo(p, c) ==
    /\ probe.stage = "deliver"
    /\ c \in probe.inflight[p].pending
    /\ probe' = [probe EXCEPT !.inflight[p].pending = @ \ {c},
                              !.inflight[p].invoked = @ \cup {c}]
    /\ busLog' = [evt |-> probe.inflight[p].evt, at |-> now, by |-> p, to |-> {c},
                  dropped |-> FALSE]
    /\ fired' = IF /\ c # Observer
                   /\ c \in started
                   /\ heap[c].Trigger.enabled
                   /\ Matches(heap[c].Trigger, probe.inflight[p].evt)
                THEN {c} ELSE {}
    /\ UNCHANGED <<heap, Recipes, files, consumers, started, initialized, crashed, lastOp,
                   loadLog, deleted, repeated, bvars>>

\* every consumer of the delivery was invoked: Enqueue returns
DeliverEnd(p) ==
    /\ probe.stage = "deliver"
    /\ probe.inflight[p].evt # NoEvt
    /\ probe.inflight[p].pending = {}
    /\ probe' = [probe EXCEPT !.inflight[p] = NoDelivery]
    /\ fired' = {} /\ busLog' = NoLog
    /\ UNCHANGED <<heap, Recipes, files, consumers, started, initialized, crashed, lastOp,
                   loadLog, deleted, repeated, bvars>>

\* a manager on two enabled recipes of the same button
DeliverDir == ("r1" :> GoodFile("r1", TRUE)) @@ ("r2" :> GoodFile("r2", TRUE))

InitDeliver ==
    /\ ManagerIdle
    /\ files = DeliverDir
    /\ BusIdle
    /\ probe = NoDeliveries

NextDeliver ==
    \/ RMInit
    \/ \E p \in Producers : DeliverBegin(p, ButtonPressEvt("b1"))
    \/ \E p \in Producers, c \in Refs \cup {Observer} : DeliverTo(p, c)
    \/ \E p \in Producers : DeliverEnd(p)
    \/ \E r \in Refs : RegisterAndStart(r)
    \/ \E r \in Refs : UnregisterAndStop(r)
    \/ \E r \in Refs : DeleteRecipe(r, TRUE)

SpecDeliver == InitDeliver /\ [][NextDeliver]_vars

\* C16: a call of Enqueue that begins when UnregisterAndStop(r) has returned
\* (and r was not started again) never invokes the trigger of r, and so never
\* executes its Action; the trigger of a stopped recipe is only invoked by a
\* delivery that was in flight when it was stopped.
NoInvocationBeginsAfterStop ==
    probe.stage = "deliver" =>
        \A p \in Producers :
            /\ (probe.inflight[p].pending \cup probe.inflight[p].invoked)
                   \cap probe.inflight[p].stopped = {}
            /\ busLog.by = p => fired \cap probe.inflight[p].stopped = {}

\* two deliveries of one event matching the trigger of a recipe that is now
\* stopped: the one in flight since before the stop has invoked the trigger,
\* the one begun after the stop has run to its end without invoking it
InFlightCompletesLaterSkips ==
    /\ probe.stage = "deliver"
    /\ \E r \in Refs \ started, p \in Producers, q \in Producers :
           /\ r \notin consumers
           /\ busLog.by = p /\ busLog.to = {r}
           /\ r \in probe.inflight[p].invoked
           /\ probe.inflight[q].evt = probe.inflight[p].evt
           /\ Matches(heap[r].Trigger, probe.inflight[q].evt)
           /\ r \in probe.inflight[q].stopped
           /\ probe.inflight[q].pending = {}
           /\ probe.inflight[q].invoked # {}

\* C17: the broker never holds two enqueue filters for one featureID, and when
\* a call of SupressFeatureReporting installs its filter, that filter, expiring
\* delay from now, is the only one of its feature, whatever filter the feature
\* had, and the filters of the other features stay.
OneFilterPerFeature ==
    [][/\ \A f \in filters', g \in filters' : f.featureID = g.featureID => f = g
       /\ \A c \in Callers :
              SupressFeatureReportingAdd(c) =>
                  /\ {f \in filters' : f.featureID = args[c].featureID}
                         = {[featureID |-> args[c].featureID,
                             expiry |-> now + args[c].delay]}
                  /\ {f \in filters' : f.featureID # args[c].featureID}
                         = {f \in filters : f.featureID # args[c].featureID}]_vars

\* a second call for a feature is about to install its filter while the filter
\* another call installed for the feature meanwhile is active, with another expiry
SecondCallOverActiveFilter ==
    \E c \in Callers, f \in filters :
        /\ pc[c] = "add"
        /\ f.featureID = args[c].featureID
        /\ f.expiry > now
        /\ f.expiry # now + args[c].delay

(***************************************************************************)
(* ZoneSetLevelAction.Execute on a system with zones and a command         *)
(* processor.                                                              *)
(***************************************************************************)
\* calls of Execute
MaxExecutes == 2

\* a zone.Zone of s.Zones
Zone(id, address, name) == [ID |-> id, Address |-> address, Name |-> name]

\* the cmd.ZoneSetLevel of Execute: the fields of the zone and the action's Level
ZoneSetLevel(zone, level) ==
    [ZoneAddress |-> zone.Address, ZoneID |-> zone.ID, ZoneName |-> zone.Name,
     Level |-> [Value |-> level]]

NewCommandGroup(desc, cmds) == [Desc |-> desc, Cmds |-> cmds]

ErrUnknownZoneID(zoneID) == Err("Unknown ZoneID", zoneID, "")
\* an error of s.CmdProcessor.Enqueue
ErrProcessor == Err("command processor", "", "")

\* an Execute that drops the result of the processor
ZoneSetLevelActionExecuteSwallowing(a, zones, result) ==
    IF a.ZoneID.s \notin DOMAIN zones
    THEN [err |-> ErrUnknownZoneID(a.ZoneID.s), groups |-> <<>>]
    ELSE [err |-> NoErr,
          groups |-> <<NewCommandGroup(<<"Zone", zones[a.ZoneID.s].Name, "Set Level", a.Level>>,
                                       <<ZoneSetLevel(zones[a.ZoneID.s], a.Level)>>)>>]

\* (a *ZoneSetLevelAction) Execute(s): the groups it hands to
\* s.CmdProcessor.Enqueue and the error it returns; result is what Enqueue returns
ZoneSetLevelActionExecute(a, zones, result) ==
    IF a.ZoneID.s \notin DOMAIN zones
    THEN [err |-> ErrUnknownZoneID(a.ZoneID.s), groups |-> <<>>]
    ELSE [err |-> result,
          groups |-> <<NewCommandGroup(<<"Zone", zones[a.ZoneID.s].Name, "Set Level", a.Level>>,
                                       <<ZoneSetLevel(zones[a.ZoneID.s], a.Level)>>)>>]

\* the systems: s.Zones is keyed by the ID of the zone
\* (the address of each zone)
SystemZones == UNION {[ids -> {"a1", "a2"}] : ids \in SUBSET {"z1", "z2"}}

ZonesOf(addresses) ==
    [id \in DOMAIN addresses |-> Zone(id, addresses[id], IF id = "z1" THEN "hall" ELSE "den")]

ExecuteActions ==
    {[ZoneID |-> GString(id), Level |-> GFloat32(level)] :
        id \in {"z1", "z2", "z3"}, level \in {<<0, 75, 0>>, <<0, 0, 2>>}}

NoExecute == [a |-> ZoneSetLevelActionNew, result |-> NoErr, err |-> NoErr]

\* a.Execute(s); the processor returns result from Enqueue
Execute(a, result) ==
    /\ probe.stage = "execute"
    /\ probe.n < MaxExecutes
    /\ \E res \in {ZoneSetLevelActionExecute(a, probe.zones, result)} :
           probe' = [probe EXCEPT !.n = @ + 1,
                                  !.queue = @ \o res.groups,
                                  !.last = [a |-> a, result |-> result, err |-> res.err]]
    /\ UNCHANGED <<mvars, bvars, busLog>>

InitExecute ==
    /\ ManagerIdle
    /\ files = EmptyMap
    /\ BusIdle
    /\ \E addresses \in SystemZones :
           probe = [stage |-> "execute", zones |-> ZonesOf(addresses), n |-> 0,
                    queue |-> <<>>, last |-> NoExecute]

NextExecute ==
    \E a \in ExecuteActions, result \in {NoErr, ErrProcessor} : Execute(a, result)

SpecExecute == InitExecute /\ [][NextExecute]_vars

\* C18: Execute on a system that has the zone of the action's ZoneID hands the
\* processor one Command Group more, holding the one ZoneSetLevel command with
\* the Address and ID of that zone and the Level of the action, and returns
\* what the processor's Enqueue returned; on a system without the zone it
\* returns an error and hands the processor nothing.
ExecuteEnqueuesOneZoneSetLevel ==
    [][\A a \in ExecuteActions, result \in {NoErr, ErrProcessor} :
           Execute(a, result) =>
               IF a.ZoneID.s \in DOMAIN probe.zones
               THEN /\ Len(probe'.queue) = Len(probe.queue) + 1
                    /\ SubSeq(probe'.queue, 1, Len(probe.queue)) = probe.queue
                    /\ \E g \in {probe'.queue[Len(probe'.queue)]} :
                           /\ Len(g.Cmds) = 1
                           /\ g.Cmds[1].ZoneAddress = probe.zones[a.ZoneID.s].Address
                           /\ g.Cmds[1].ZoneID = probe.zones[a.ZoneID.s].ID
                           /\ g.Cmds[1].Level.Value = a.Level
                    /\ probe'.last.err = result
               ELSE /\ probe'.last.err # NoErr
                    /\ probe'.queue = probe.queue]_vars

\* after a call on a zone the system has, which returned the error of the
\* processor, a call on a zone it has not returned an error; the processor was
\* handed the one group of the first call
OneGroupThenUnknownZone ==
    /\ probe.stage = "execute"
    /\ probe.n = 2
    /\ Len(probe.queue) = 1
    /\ probe.queue[1].Cmds[1].ZoneID \in DOMAIN probe.zones
    /\ probe.last.a.ZoneID.s \notin DOMAIN probe.zones
    /\ probe.last.err = ErrUnknownZoneID(probe.last.a.ZoneID.s)

(***************************************************************************)
(* A Device and its children: zones, buttons, devices and sensors, each    *)
(* collection keyed by the address of the child.                           *)
(***************************************************************************)
\* NewDevice: the four collections are empty maps
NewDevice == [Zones |-> EmptyMap, Buttons |-> EmptyMap, Devices |-> EmptyMap,
              Sensors |-> EmptyMap]

\* a child to add: a zone, button, device or sensor with its ID and Address
Child(id, address) == [ID |-> id, Address |-> address]

\* m[address] = child
Put(m, address, child) ==
    [a \in DOMAIN m \cup {address} |-> IF a = address THEN child ELSE m[a]]

ErrDupeZone(address) ==
    Err("device already has a zone with the same address, must be unique", address, "")
ErrDupeButton(address) ==
    Err("button with address already added to parent device", address, "")
ErrDupeDevice(address) ==
    Err("device with address already added to parent device", address, "")
ErrDupeSensor(address) ==
    Err("sensor with address already added to device", address, "")

\* an AddZone without the test of the address
AddZoneOverwriting(d, z) ==
    [err |-> NoErr, d |-> [d EXCEPT !.Zones = Put(d.Zones, z.Address, z)]]

\* (d *Device) AddZone(z): the error returned and the device afterwards
AddZone(d, z) ==
    IF z.Address \in DOMAIN d.Zones
    THEN [err |-> ErrDupeZone(z.Address), d |-> d]
    ELSE [err |-> NoErr, d |-> [d EXCEPT !.Zones = Put(d.Zones, z.Address, z)]]

AddButton(d, b) ==
    IF b.Address \in DOMAIN d.Buttons
    THEN [err |-> ErrDupeButton(b.Address), d |-> d]
    ELSE [err |-> NoErr, d |-> [d EXCEPT !.Buttons = Put(d.Buttons, b.Address, b)]]

AddDevice(d, cd) ==
    IF cd.Address \in DOMAIN d.Devices
    THEN [err |-> ErrDupeDevice(cd.Address), d |-> d]
    ELSE [err |-> NoErr, d |-> [d EXCEPT !.Devices = Put(d.Devices, cd.Address, cd)]]

AddSensor(d, sensor) ==
    IF sensor.Address \in DOMAIN d.Sensors
    THEN [err |-> ErrDupeSensor(sensor.Address), d |-> d]
    ELSE [err |-> NoErr, d |-> [d EXCEPT !.Sensors = Put(d.Sensors, sensor.Address, sensor)]]

\* the zones to add: two for each address; the buttons, devices and sensors:
\* one for each address
Children == {Child(id, address) : id \in {"c1", "c2"}, address \in {"a1", "a2"}}
OneChildPerAddress == {Child("c1", address) : address \in {"a1", "a2"}}

NoAdd == [op |-> "", child |-> Child("", ""), err |-> NoErr]

\* the device after a call and what the call returned
Added(op, child, res) ==
    probe' = [probe EXCEPT !.d = res.d, !.last = [op |-> op, child |-> child, err |-> res.err]]

CallAddZone(z) ==
    /\ probe.stage = "device"
    /\ Added("AddZone", z, AddZone(probe.d, z))
    /\ UNCHANGED <<mvars, bvars, busLog>>

CallAddButton(b) ==
    /\ probe.stage = "device"
    /\ Added("AddButton", b, AddButton(probe.d, b))
    /\ UNCHANGED <<mvars, bvars, busLog>>

CallAddDevice(cd) ==
    /\ probe.stage = "device"
    /\ Added("AddDevice", cd, AddDevice(probe.d, cd))
    /\ UNCHANGED <<mvars, bvars, busLog>>

CallAddSensor(sensor) ==
    /\ probe.stage = "device"
    /\ Added("AddSensor", sensor, AddSensor(probe.d, sensor))
    /\ UNCHANGED <<mvars, bvars, busLog>>

InitDevice ==
    /\ ManagerIdle
    /\ files = EmptyMap
    /\ BusIdle
    /\ probe = [stage |-> "device", d |-> NewDevice, last |-> NoAdd]

NextDevice ==
    \/ \E z \in Children : CallAddZone(z)
    \/ \E b \in OneChildPerAddress : CallAddButton(b)
    \/ \E cd \in OneChildPerAddress : CallAddDevice(cd)
    \/ \E sensor \in OneChildPerAddress : CallAddSensor(sensor)

SpecDevice == InitDevice /\ [][NextDevice]_vars

\* the call put the child under its address into the collection coll and left
\* the other collections alone, or, the address being a key of coll already,
\* failed and left the device as it was
AddedOrRejected(coll, child) ==
    IF child.Address \in DOMAIN probe.d[coll]
    THEN /\ probe'.last.err # NoErr
         /\ probe'.d = probe.d
    ELSE /\ probe'.last.err = NoErr
         /\ DOMAIN probe'.d[coll] = DOMAIN probe.d[coll] \cup {child.Address}
         /\ probe'.d[coll][child.Address] = child
         /\ \A a \in DOMAIN probe.d[coll] : probe'.d[coll][a] = probe.d[coll][a]
         /\ \A other \in {"Zones", "Buttons", "Devices", "Sensors"} \ {coll} :
                probe'.d[other] = probe.d[other]

MaxWorkers == 2
Workers == 1..MaxWorkers

NoWork == [op |-> "", r |-> 0, list |-> <<>>, index |-> 0]
\* appended, removed: the recipes whose last completed call was a successful
\* SaveRecipe(r, true), a successful DeleteRecipe
NoRace == [stage |-> "race", w |-> [k \in Workers |-> NoWork], appended |-> {}, removed |-> {}]

InFlight == {probe.w[k].r : k \in Workers} \ {0}

\* the range loop of DeleteRecipe: the index of the first recipe with the ID (0: none)
IndexOf(list, id) ==
    IF \E i \in 1..Len(list) : heap[list[i]].Identifiable.ID = id
    THEN CHOOSE i \in 1..Len(list) :
             /\ heap[list[i]].Identifiable.ID = id
             /\ \A j \in 1..(i - 1) : heap[list[j]].Identifiable.ID # id
    ELSE 0

\* append(list[:i], list[i+1:]...), i counted from 1
WithoutIndex(list, i) == SubSeq(list, 1, i - 1) \o SubSeq(list, i + 1, Len(list))

\* SaveRecipe(r, true) up to the load of rm.Recipes: the file is written
SaveRecipeLoad(k, r) ==
    /\ Ready
    /\ probe.stage = "race"
    /\ probe.w[k] = NoWork
    /\ r \notin InFlight
    /\ \A i \in 1..Len(Recipes) : Recipes[i] # r
    /\ Len(Recipes) < MaxList
    /\ files' = WriteFile(heap, r)
    /\ probe' = [probe EXCEPT !.w[k] = [op |-> "SaveRecipe", r |-> r, list |-> Recipes,
                                        index |-> 0]]
    /\ fired' = {} /\ busLog' = NoLog
    /\ UNCHANGED <<heap, Recipes, consumers, started, initialized, crashed, lastOp, loadLog,
                   deleted, repeated, bvars>>

\* rm.Recipes = append(the list loaded, r); SaveRecipe returns nil
SaveRecipeStore(k) ==
    /\ probe.stage = "race"
    /\ probe.w[k].op = "SaveRecipe"
    /\ Recipes' = Append(probe.w[k].list, probe.w[k].r)
    /\ probe' = [probe EXCEPT !.w[k] = NoWork,
                              !.appended = @ \cup {probe.w[k].r},
                              !.removed = @ \ {probe.w[k].r}]
    /\ lastOp' = Op("SaveRecipe", probe.w[k].r, NoErr, 0, TRUE, NoData)
    /\ fired' = {} /\ busLog' = NoLog
    /\ UNCHANGED <<heap, files, consumers, started, initialized, crashed, loadLog, deleted,
                   repeated, bvars>>

\* DeleteRecipe(r) up to the end of its range loop: os.Remove (the call returns
\* its error), then the index of the recipe in rm.Recipes
DeleteRecipeRange(k, r) ==
    /\ Ready
    /\ probe.stage = "race"
    /\ probe.w[k] = NoWork
    /\ r \notin InFlight
    /\ IF recipePath(heap[r]) \notin DOMAIN files
       THEN /\ lastOp' = Op("DeleteRecipe", r, ErrNotExist, 0, FALSE, NoData)
            /\ UNCHANGED <<files, probe>>
       ELSE /\ files' = [n \in DOMAIN files \ {recipePath(heap[r])} |-> files[n]]
            /\ probe' = [probe EXCEPT !.w[k] =
                             [op |-> "DeleteRecipe", r |-> r, list |-> <<>>,
                              index |-> IndexOf(Recipes, heap[r].Identifiable.ID)]]
            /\ UNCHANGED lastOp
    /\ fired' = {} /\ busLog' = NoLog
    /\ UNCHANGED <<heap, Recipes, consumers, started, initialized, crashed, loadLog, deleted,
                   repeated, bvars>>

\* rm.Recipes = append(rm.Recipes[:i], rm.Recipes[i+1:]...) on the list as it
\* is now (slicing beyond its length panics), UnregisterAndStop(r), return nil
DeleteRecipeStore(k) ==
    /\ probe.stage = "race"
    /\ probe.w[k].op = "DeleteRecipe"
    /\ ~crashed
    /\ IF probe.w[k].index > Len(Recipes)
       THEN /\ crashed' = TRUE
            /\ UNCHANGED <<Recipes, consumers, started, deleted, repeated, lastOp, probe>>
       ELSE /\ Recipes' = IF probe.w[k].index = 0 THEN Recipes
                           ELSE WithoutIndex(Recipes, probe.w[k].index)
            /\ Unregister(probe.w[k].r)
            /\ deleted' = deleted \cup {probe.w[k].r}
            /\ repeated' = [start |-> repeated.start \ {probe.w[k].r},
                            stop |-> repeated.stop \ {probe.w[k].r}]
            /\ probe' = [probe EXCEPT !.w[k] = NoWork,
                                      !.removed = @ \cup {probe.w[k].r},
                                      !.appended = @ \ {probe.w[k].r}]
            /\ lastOp' = Op("DeleteRecipe", probe.w[k].r, NoErr, 0, FALSE, NoData)
            /\ crashed' = FALSE
    /\ fired' = {} /\ busLog' = NoLog
    /\ UNCHANGED <<heap, files, initialized, loadLog, bvars>>

\* RecipeByID(id): the first recipe of rm.Recipes with the ID (0: nil)
RecipeByID(id) ==
    /\ Ready
    /\ probe.stage = "race"
    /\ lastOp' = Op("RecipeByID", 0, NoErr,
                    IF IndexOf(Recipes, id) = 0 THEN 0 ELSE Recipes[IndexOf(Recipes, id)],
                    FALSE, NoData)
    /\ fired' = {} /\ busLog' = NoLog
    /\ UNCHANGED <<heap, Recipes, files, consumers, started, initialized, crashed, loadLog,
                   deleted, repeated, bvars, probe>>

RaceDirs == {EmptyMap, "r1" :> GoodFile("r1", TRUE)}

InitRace ==
    /\ ManagerIdle
    /\ files \in RaceDirs
    /\ BusIdle
    /\ probe = NoRace

NextRace ==
    \/ RMInit
    \/ \E data \in LifecycleSubmissions : UnmarshalNewRecipe(data)
    \/ \E k \in Workers, r \in Refs : SaveRecipeLoad(k, r)
    \/ \E k \in Workers : SaveRecipeStore(k)
    \/ \E k \in Workers, r \in Refs : DeleteRecipeRange(k, r)
    \/ \E k \in Workers : DeleteRecipeStore(k)
    \/ \E id \in {"r1", "r2"} : RecipeByID(id)

SpecRace == InitRace /\ [][NextRace]_vars

\* C20: concurrent calls of SaveRecipe(r, true), DeleteRecipe and RecipeByID
\* leave rm.Recipes as the calls in some serial order would: a recipe whose
\* last completed call was a successful SaveRecipe(r, true) is in the list (no
\* append is lost), one whose last completed call was a successful DeleteRecipe
\* is not (it does not reappear), RecipeByID finds exactly the recipes of the
\* list, and no call aborts the process.
RecipesCallsSerialize ==
    probe.stage = "race" =>
        /\ ~crashed
        /\ \A r \in Refs \ InFlight :
               /\ r \in probe.appended => \E i \in 1..Len(Recipes) : Recipes[i] = r
               /\ r \in probe.removed => \A i \in 1..Len(Recipes) : Recipes[i] # r
        /\ lastOp.op = "RecipeByID" /\ lastOp.ret # 0 =>
               \E i \in 1..Len(Recipes) : Recipes[i] = lastOp.ret

(***************************************************************************)
(* Instances.  A Trigger or Action is a pointer to a struct: objs holds    *)
(* the structs, a reference is an index of it.  The cook book holds one    *)
(* instance of each variant; the factories hold the New method of each.    *)
(***************************************************************************)
\* recipes built
MaxBuilds == 2

\* loadCookBooks: &ButtonTrigger{}, &TimeTrigger{}, &ZoneSetLevelAction{}, &SceneSetAction{}
CookBookInstances ==
    << [type |-> ButtonTrigger, fields |-> ButtonTriggerNew],
       [type |-> TimeTrigger, fields |-> TimeTriggerNew],
       [type |-> ZoneSetLevelAction, fields |-> ZoneSetLevelActionNew],
       [type |-> SceneSetAction, fields |-> SceneSetActionNew] >>

\* the instance of the cook book whose New the factory holds under the type
Prototype(type) == CHOOSE i \in 1..Len(CookBookInstances) : CookBookInstances[i].type = type

\* a New that returns its receiver
FactoryNewShared(objs, type) == [objs |-> objs, ref |-> Prototype(type)]

\* rm.triggerFactory[type](), rm.actionFactory[type](): New() of the
\* prototype returns a pointer to a new zero-valued struct
FactoryNew(objs, type) ==
    [objs |-> Append(objs, [type |-> type, fields |-> New(type)]), ref |-> Len(objs) + 1]

\* setIngredients on the instance ref: the struct is written in place, also
\* when the binding fails
BindInPlace(objs, ref, values) ==
    With(setIngredients(Ingredients(objs[ref].type), values, objs[ref].fields),
         LAMBDA b : [err |-> b.err, objs |-> [objs EXCEPT ![ref].fields = b.s]])

\* UnmarshalNewRecipe, lines 179-193: both instances are made, then bound
BuildUnmarshal(objs, ttype, tvalues, atype, avalues) ==
    With(FactoryNew(objs, ttype), LAMBDA t :
    With(FactoryNew(t.objs, atype), LAMBDA a :
    With(BindInPlace(a.objs, t.ref, tvalues), LAMBDA bt :
         IF bt.err # NoErr THEN [err |-> bt.err, objs |-> bt.objs, Trigger |-> 0, Action |-> 0]
         ELSE With(BindInPlace(bt.objs, a.ref, avalues), LAMBDA ba :
              IF ba.err # NoErr
              THEN [err |-> ba.err, objs |-> ba.objs, Trigger |-> 0, Action |-> 0]
              ELSE [err |-> NoErr, objs |-> ba.objs, Trigger |-> t.ref, Action |-> a.ref]))))

\* loadRecipe, lines 301-315: makeTrigger, then makeAction
BuildLoad(objs, ttype, tvalues, atype, avalues) ==
    With(FactoryNew(objs, ttype), LAMBDA t :
    With(BindInPlace(t.objs, t.ref, tvalues), LAMBDA bt :
         IF bt.err # NoErr THEN [err |-> bt.err, objs |-> bt.objs, Trigger |-> 0, Action |-> 0]
         ELSE With(FactoryNew(bt.objs, atype), LAMBDA a :
              With(BindInPlace(a.objs, a.ref, avalues), LAMBDA ba :
              IF ba.err # NoErr
              THEN [err |-> ba.err, objs |-> ba.objs, Trigger |-> 0, Action |-> 0]
              ELSE [err |-> NoErr, objs |-> ba.objs, Trigger |-> t.ref, Action |-> a.ref]))))

\* the recipe of a build that succeeded joins the recipes there are
Built(res) ==
    probe' = [probe EXCEPT !.objs = res.objs,
                           !.n = @ + 1,
                           !.err = res.err,
                           !.recipes = IF res.err = NoErr
                                       THEN Append(@, [Trigger |-> res.Trigger,
                                                       Action |-> res.Action])
                                       ELSE @]

OwnUnmarshalNewRecipe(ttype, tvalues, atype, avalues) ==
    /\ probe.stage = "own"
    /\ probe.n < MaxBuilds
    /\ \E res \in {BuildUnmarshal(probe.objs, ttype, tvalues, atype, avalues)} : Built(res)
    /\ UNCHANGED <<mvars, bvars, busLog>>

OwnLoadRecipe(ttype, tvalues, atype, avalues) ==
    /\ probe.stage = "own"
    /\ probe.n < MaxBuilds
    /\ \E res \in {BuildLoad(probe.objs, ttype, tvalues, atype, avalues)} : Built(res)
    /\ UNCHANGED <<mvars, bvars, busLog>>

\* the triggers and actions to build: complete ones, and ones whose binding
\* fails after a field was written
OwnTriggers ==
    { <<ButtonTrigger, "ButtonID" :> WStr("b1")>>,
      <<ButtonTrigger, ("ButtonID" :> WStr("b2")) @@ ("MaxDuration" :> WNum(<<0, 1500, 0>>))>>,
      <<ButtonTrigger, ("ButtonID" :> WStr("b3")) @@ ("MaxDuration" :> WStr("1500"))>>,
      <<TimeTrigger, ("Time" :> WStr("20:00")) @@ ("Forever" :> WBool(TRUE))>> }

OwnActions ==
    { <<ZoneSetLevelAction, ("Level" :> WNum(<<0, 75, 0>>)) @@ ("ZoneID" :> WStr("z1"))>>,
      <<ZoneSetLevelAction, ("Level" :> WNum(<<0, 20, 0>>)) @@ ("ZoneID" :> WStr("z2"))>>,
      <<ZoneSetLevelAction, "Level" :> WNum(<<0, 50, 0>>)>>,
      <<SceneSetAction, "SceneID" :> WStr("s1")>> }

InitOwn ==
    /\ ManagerIdle
    /\ files = EmptyMap
    /\ BusIdle
    /\ probe = [stage |-> "own", objs |-> CookBookInstances, n |-> 0, err |-> NoErr,
                recipes |-> <<>>]

NextOwn ==
    \/ \E t \in OwnTriggers, a \in OwnActions : OwnUnmarshalNewRecipe(t[1], t[2], a[1], a[2])
    \/ \E t \in OwnTriggers, a \in OwnActions : OwnLoadRecipe(t[1], t[2], a[1], a[2])

SpecOwn == InitOwn /\ [][NextOwn]_vars

\* the instances of the recipe
Owned(recipe) == {recipe.Trigger, recipe.Action}

\* C21: the Trigger and the Action of every recipe built by UnmarshalNewRecipe
\* or loadRecipe are instances of no other recipe and none of the cook book;
\* a build, failed or not, changes no field of the instances of the recipes
\* there are and none of the instances of the cook book, which stay zero-valued.
InstancesAreExclusivelyOwned ==
    [][/\ \A i \in 1..Len(probe'.recipes) :
              /\ probe'.recipes[i].Trigger # probe'.recipes[i].Action
              /\ Owned(probe'.recipes[i]) \cap (1..Len(CookBookInstances)) = {}
              /\ \A j \in 1..Len(probe'.recipes) :
                     i # j => Owned(probe'.recipes[i]) \cap Owned(probe'.recipes[j]) = {}
       /\ \A p \in 1..Len(CookBookInstances) : probe'.objs[p] = CookBookInstances[p]
       /\ \A i \in 1..Len(probe.recipes) :
              /\ probe'.recipes[i] = probe.recipes[i]
              /\ \A ref \in Owned(probe.recipes[i]) : probe'.objs[ref] = probe.objs[ref]]_vars

\* a second recipe of the variants of the first, with other values, and then
\* nothing failed: each has the values it was built with
TwoRecipesOfOneVariant ==
    /\ probe.stage = "own"
    /\ Len(probe.recipes) = 2
    /\ probe.objs[probe.recipes[1].Trigger].type = probe.objs[probe.recipes[2].Trigger].type
    /\ probe.objs[probe.recipes[1].Action].type = probe.objs[probe.recipes[2].Action].type
    /\ probe.objs[probe.recipes[1].Trigger].fields["ButtonID"] = GString("b1")
    /\ probe.objs[probe.recipes[2].Trigger].fields["ButtonID"] = GString("b2")
    /\ probe.objs[probe.recipes[1].Action].fields["ZoneID"] = GString("z1")
    /\ probe.objs[probe.recipes[2].Action].fields["ZoneID"] = GString("z2")

\* C22: while a call of SupressFeatureReporting whose synthetic event has been
\* delivered has yet to install its filter, no FeatureReportingEvt that a
\* producer enqueues for the feature of the call is delivered.
NoStaleEventBeforeNewFilter ==
    \A c \in Callers :
        /\ pc[c] = "add"
        /\ synth[c] = "delivered"
        /\ busLog.evt.kind = "FeatureReportingEvt"
        /\ busLog.by = 0
        /\ busLog.evt.id = args[c].featureID
        => busLog.dropped

\* C23: an event that is enqueued is dropped only if it is a FeatureReportingEvt
\* for a feature that has a filter installed; an event of another kind and a
\* FeatureReportingEvt for a feature without a filter are delivered to every
\* consumer, whatever filters other features have.
FilterDropsOnlyItsFeature ==
    busLog.evt # NoEvt =>
        /\ busLog.dropped =>
               /\ busLog.evt.kind = "FeatureReportingEvt"
               /\ \E f \in filters : f.featureID = busLog.evt.id
        /\ (\/ busLog.evt.kind # "FeatureReportingEvt"
            \/ \A f \in filters : f.featureID # busLog.evt.id)
               => ~busLog.dropped /\ busLog.to = consumers

\* a producer's FeatureReportingEvt for a feature without a filter is delivered
\* while the filter of another feature is active
OtherFeatureDeliveredBesideFilter ==
    /\ busLog.evt.kind = "FeatureReportingEvt"
    /\ busLog.by = 0
    /\ \E f \in filters : f.featureID # busLog.evt.id /\ f.expiry > now
    /\ \A f \in filters : f.featureID # busLog.evt.id
    /\ ~busLog.dropped
    /\ busLog.to = consumers
    /\ consumers # {}

\* the recipes of a list
Listed(list) == {list[i] : i \in 1..Len(list)}

SaveRecipeAppendsAfterTheWrite ==
    [][\A r \in Refs, appendTo \in BOOLEAN, ioOK \in BOOLEAN :
           lastOp'.op = "SaveRecipe" /\ SaveRecipe(r, appendTo, ioOK) =>
               /\ ~ioOK => /\ lastOp'.err # NoErr
                           /\ Recipes' = Recipes
                           /\ files' = files
               /\ ~appendTo => Recipes' = Recipes
               /\ ioOK => /\ lastOp'.err = NoErr
                          /\ DOMAIN files' = DOMAIN files \cup {heap[r].Identifiable.ID}
                          /\ files'[heap[r].Identifiable.ID] = recipeJSONOf(heap[r])
                          /\ \A n \in DOMAIN files \ {heap[r].Identifiable.ID} :
                                 files'[n] = files[n]
                          /\ appendTo => Recipes' = Append(Recipes, r)
               /\ heap' = heap]_vars

\* SaveRecipe failed for a recipe returned by UnmarshalNewRecipe: the recipe has
\* no file and is not in the list, which holds the recipes loaded
FailedSaveBesideLoaded ==
    /\ lastOp.op = "SaveRecipe"
    /\ lastOp.err = ErrIO
    /\ lastOp.r \notin Listed(Recipes)
    /\ Len(Recipes) = 1
    /\ recipePath(heap[lastOp.r]) \notin DOMAIN files

\* C26: an EnableRecipe that returns nil after a write leaves the enabled flag
\* of the file of the recipe equal to that of its trigger; an EnableRecipe that
\* returns an error leaves the enabled flag of the trigger as it was.
EnableRecipeKeepsFlagAndFileEqual ==
    [][\A r \in Refs, enabled \in BOOLEAN, ioOK \in BOOLEAN :
           lastOp'.op = "EnableRecipe" /\ EnableRecipe(r, enabled, ioOK) =>
               /\ lastOp'.err = NoErr /\ lastOp'.wrote =>
                      files'[recipePath(heap'[r])].enabled = heap'[r].Trigger.enabled
               /\ lastOp'.err # NoErr =>
                      heap'[r].Trigger.enabled = heap[r].Trigger.enabled]_vars

\* C27: every recipe of rm.Recipes has a file persisted under its ID, so that
\* DeleteRecipe succeeds for it, and no two entries of rm.Recipes carry the
\* same ID.
ListedRecipesArePersistedOnce ==
    \A i \in 1..Len(Recipes) :
        /\ recipePath(heap[Recipes[i]]) \in DOMAIN files
        /\ \A j \in 1..Len(Recipes) :
               i # j => heap[Recipes[i]].Identifiable.ID # heap[Recipes[j]].Identifiable.ID

(***************************************************************************)
(* Extensions: the registered extensions in the order of their             *)
(* registration, and the look-up of what they export for a device.         *)
(***************************************************************************)
\* extensions registered
MaxExtensions == 3

\* the nil of an interface or pointer result
Nil == [kind |-> "nil", by |-> "", model |-> ""]

\* what an extension returns for a device: a value of the extension's own
Export(kind, by, d) == [kind |-> kind, by |-> by, model |-> d.ModelNumber]

\* an Extension: its Name() and the model numbers it exports a builder, a
\* network and events for
Extension(name, builders, networks, events) ==
    [name |-> name, builders |-> builders, networks |-> networks, events |-> events]

\* the connectedbytcp extension: everything for the tcp600gwb, nil otherwise
ConnectedByTCP == Extension("connectedbytcp", {"tcp600gwb"}, {"tcp600gwb"}, {"tcp600gwb"})

\* ext.BuilderForDevice(sys, d)
BuilderForDevice(ext, d) ==
    IF d.ModelNumber \in ext.builders THEN Export("cmdBuilder", ext.name, d) ELSE Nil

\* ext.NetworkForDevice(sys, d)
NetworkForDevice(ext, d) ==
    IF d.ModelNumber \in ext.networks THEN Export("network", ext.name, d) ELSE Nil

\* ext.EventsForDevice(sys, d)
EventsForDevice(ext, d) ==
    IF d.ModelNumber \in ext.events THEN Export("ExtEvents", ext.name, d) ELSE Nil

\* a look-up that goes through all extensions and returns the last builder
RECURSIVE FindCmdBuilderLastFrom(_, _, _, _)
FindCmdBuilderLastFrom(extensions, i, d, found) ==
    IF i > Len(extensions) THEN found
    ELSE With(BuilderForDevice(extensions[i], d), LAMBDA builder :
              FindCmdBuilderLastFrom(extensions, i + 1, d,
                                     IF builder # Nil THEN builder ELSE found))

FindCmdBuilderLast(extensions, d) == FindCmdBuilderLastFrom(extensions, 1, d, Nil)

\* for _, ext := range e.extensions, from the i-th on
RECURSIVE FindCmdBuilderFrom(_, _, _)
FindCmdBuilderFrom(extensions, i, d) ==
    IF i > Len(extensions) THEN Nil
    ELSE With(BuilderForDevice(extensions[i], d), LAMBDA builder :
              IF builder # Nil THEN builder ELSE FindCmdBuilderFrom(extensions, i + 1, d))

FindCmdBuilder(extensions, d) ==
    FindCmdBuilderFrom(extensions, 1, d)

RECURSIVE FindNetworkFrom(_, _, _)
FindNetworkFrom(extensions, i, d) ==
    IF i > Len(extensions) THEN Nil
    ELSE With(NetworkForDevice(extensions[i], d), LAMBDA network :
              IF network # Nil THEN network ELSE FindNetworkFrom(extensions, i + 1, d))

FindNetwork(extensions, d) ==
    FindNetworkFrom(extensions, 1, d)

RECURSIVE FindEventsFrom(_, _, _)
FindEventsFrom(extensions, i, d) ==
    IF i > Len(extensions) THEN Nil
    ELSE With(EventsForDevice(extensions[i], d), LAMBDA events :
              IF events # Nil THEN events ELSE FindEventsFrom(extensions, i + 1, d))

FindEvents(extensions, d) ==
    FindEventsFrom(extensions, 1, d)

NoFind == [op |-> "", d |-> "", result |-> Nil]

\* e.Register(ext)
Register(ext) ==
    /\ probe.stage = "ext"
    /\ Len(probe.extensions) < MaxExtensions
    /\ probe' = [probe EXCEPT !.extensions = Append(@, ext), !.last = NoFind]
    /\ UNCHANGED <<mvars, bvars, busLog>>

Found(op, d, result) ==
    /\ probe.stage = "ext"
    /\ probe' = [probe EXCEPT !.last = [op |-> op, d |-> d.ModelNumber, result |-> result]]
    /\ UNCHANGED <<mvars, bvars, busLog>>

CallFindCmdBuilder(d) == Found("FindCmdBuilder", d, FindCmdBuilder(probe.extensions, d))
CallFindNetwork(d) == Found("FindNetwork", d, FindNetwork(probe.extensions, d))
CallFindEvents(d) == Found("FindEvents", d, FindEvents(probe.extensions, d))

\* the extensions to register: connectedbytcp, one that exports a builder and a
\* network for the same hardware, one for other hardware that exports events
\* for both, and one that exports nothing
RegisteredExtensions ==
    { ConnectedByTCP,
      Extension("tcpbridge", {"tcp600gwb"}, {"tcp600gwb"}, {}),
      Extension("lutron", {"l-bdgpro2-wh"}, {"l-bdgpro2-wh"}, {"l-bdgpro2-wh", "tcp600gwb"}),
      Extension("null", {}, {}, {}) }

ExtDevices == {[ModelNumber |-> m] : m \in {"tcp600gwb", "l-bdgpro2-wh", "f7c029v2"}}

\* NewExtensions(): no extension is registered
InitExt ==
    /\ ManagerIdle
    /\ files = EmptyMap
    /\ BusIdle
    /\ probe = [stage |-> "ext", extensions |-> <<>>, last |-> NoFind]

NextExt ==
    \/ \E ext \in RegisteredExtensions : Register(ext)
    \/ \E d \in ExtDevices : CallFindCmdBuilder(d)
    \/ \E d \in ExtDevices : CallFindNetwork(d)
    \/ \E d \in ExtDevices : CallFindEvents(d)

SpecExt == InitExt /\ [][NextExt]_vars

\* the positions of the extensions that export the kind for the model number
Exporting(extensions, op, m) ==
    {i \in 1..Len(extensions) :
        m \in CASE op = "FindCmdBuilder" -> extensions[i].builders
               [] op = "FindNetwork" -> extensions[i].networks
               [] OTHER -> extensions[i].events}

KindOf(op) ==
    CASE op = "FindCmdBuilder" -> "cmdBuilder"
      [] op = "FindNetwork" -> "network"
      [] OTHER -> "ExtEvents"

\* what a look-up is to return: the export of the earliest registered
\* extension that has one, nil when none has
EarliestExport(extensions, op, m) ==
    IF Exporting(extensions, op, m) = {} THEN Nil
    ELSE [kind |-> KindOf(op),
          by |-> extensions[CHOOSE i \in Exporting(extensions, op, m) :
                                \A j \in Exporting(extensions, op, m) : i <= j].name,
          model |-> m]

FindOps == {"FindCmdBuilder", "FindNetwork", "FindEvents"}

\* C28: FindCmdBuilder, FindNetwork and FindEvents return the non-nil result
\* of the earliest registered extension that exports one for the device, nil
\* exactly when no registered extension does, and leave the registered
\* extensions and their order as they are; a Register appends, and changes the
\* result of no look-up that was not nil.
FindReturnsEarliestExport ==
    [][/\ probe'.last.op \in FindOps =>
              /\ probe'.last.result
                     = EarliestExport(probe.extensions, probe'.last.op, probe'.last.d)
              /\ probe'.last.result = Nil
                     <=> Exporting(probe.extensions, probe'.last.op, probe'.last.d) = {}
              /\ probe'.extensions = probe.extensions
       /\ probe'.last.op \notin FindOps =>
              /\ \E ext \in RegisteredExtensions :
                     probe'.extensions = Append(probe.extensions, ext)
              /\ \A d \in ExtDevices :
                     /\ FindCmdBuilder(probe.extensions, d) # Nil =>
                            FindCmdBuilder(probe'.extensions, d)
                                = FindCmdBuilder(probe.extensions, d)
                     /\ FindNetwork(probe.extensions, d) # Nil =>
                            FindNetwork(probe'.extensions, d) = FindNetwork(probe.extensions, d)
                     /\ FindEvents(probe.extensions, d) # Nil =>
                            FindEvents(probe'.extensions, d)
                                = FindEvents(probe.extensions, d)]_vars

\* FindCmdBuilder returned the builder of the second of three extensions: the
\* first exports none for the device, the third, another extension, exports one
BuilderOfSecondOfThree ==
    /\ probe.stage = "ext"
    /\ probe.last.op = "FindCmdBuilder"
    /\ Len(probe.extensions) = 3
    /\ probe.last.d \notin probe.extensions[1].builders
    /\ probe.last.d \in probe.extensions[2].builders
    /\ probe.last.d \in probe.extensions[3].builders
    /\ probe.extensions[3].name # probe.extensions[2].name
    /\ probe.last.result = [kind |-> "cmdBuilder", by |-> probe.extensions[2].name,
                            model |-> probe.last.d]

====
